---- MODULE Spec2Model ----
(***************************************************************************)
(* Model of the task engine of ai-workflow-24h                             *)
(* (src/src/workflow/engine.py) and of the endpoints of src/src/main.py    *)
(* that drive it.                                                          *)
(*                                                                         *)
(* The engine runs on one asyncio event loop: a coroutine runs without     *)
(* interruption from one await that suspends to the next.  Each action     *)
(* below is one such uninterrupted stretch of code (a worker that returns  *)
(* from process_task tests self.running and enters wait_for in the same    *)
(* stretch).  The places where the engine's coroutines suspend are         *)
(*   - asyncio.wait_for(self.task_queue.get(), 1.0)   (engine.py:148)      *)
(*   - await handler(task.payload)                    (engine.py:108)      *)
(*   - await asyncio.sleep(2 ** task.retry_count)     (engine.py:130)      *)
(*   - await asyncio.gather over self.workers         (engine.py:188)      *)
(* task_queue is an unbounded asyncio.Queue, so put() never suspends.      *)
(*                                                                         *)
(* The worker loops differ only in the worker_id they log, so the list     *)
(* self.workers is modelled as a bag of worker-loop states.                *)
(*                                                                         *)
(* The coordinator (src/src/workflow/agents/main_coordinator.py) is a       *)
(* client of its agents, not of the engine; one improvement cycle suspends *)
(* in the gather of its parallel analysis (main_coordinator.py:254) and in *)
(* the improver agent's execute (main_coordinator.py:427, 281); the other  *)
(* phases contain no await that suspends.                                  *)
(*                                                                         *)
(* Spec        the engine alone (engine.py)                                *)
(* SpecRegister the engine kept running while handlers are replaced        *)
(* SpecApp     the engine with main.py's pause and resume endpoints        *)
(* SpecPause   the engine started once, with the pause and resume         *)
(*             endpoints                                                   *)
(* SpecExhaust the engine kept running, with handlers that always raise,   *)
(*             under the event loop's fair scheduling                      *)
(* SpecQueue   the engine kept running, tasks of differing priority        *)
(* SpecQuery   the engine kept running, with a client polling task status  *)
(* SpecBackoff the engine kept running, tasks with a longer retry budget   *)
(* SpecCycle   one improvement cycle, its jobs ending in any order         *)
(* SpecScores  one improvement cycle over the whole range of job results   *)
(* SpecReview  the coordinator's execute(task), with its full review run   *)
(* SpecDriver  the improvement driver's outer loop                         *)
(*             (src/src/workflow/infinite_improvement.py)                  *)
(* SpecRestart the improvement driver run, stopped and run again           *)
(* SpecBudget  the cycle manager re-invoked while should_continue()        *)
(*             (src/src/workflow/github_cycle_manager.py)                  *)
(***************************************************************************)
EXTENDS Integers, Sequences, FiniteSets, Bags, TLC

\* ---------------------------------------------------------------- bounds
\* Tasks submitted in one run.
MaxTasks == 2
\* Largest max_retries a submitted task carries (the dataclass default is 3).
MaxRetries == 1
\* self.worker_count, the number of worker loops start() creates (5 in the
\* engine).
WorkerCount == 2
\* Reader personas in a parallel-analysis batch (10 in the coordinator).
PersonaCount == 2
\* Longest target_episodes list of a full review run (3 by default).
MaxUnits == 2
\* Outer iterations of the improvement driver in one run.
MaxIterations == 10
\* Hours of wall-clock time a run of the improvement driver spans.
MaxHours == 3
\* Largest max_cycles the cycle manager is configured with (10 by default).
MaxCycles == 3
\* How many batches of loops may be alive at once: self.workers grows by a
\* batch when start() follows a pause, and a monitor loop outlives stop()
\* until it next wakes.
MaxLoopBatches == 1

\* ------------------------------------------------------------ input sets
\* The task type (dispatch key) submitted tasks carry, and the handler
\* callables an application may register for it.
Types == {"data_processing"}
Handlers == {"h1", "h2"}
\* Python's None.
None == "None"

\* TaskPriority
LOW == 1
NORMAL == 5
HIGH == 7
CRITICAL == 10
TaskPriority == {LOW, NORMAL, HIGH, CRITICAL}

\* TaskStatus (each member is modelled by its value)
PENDING == "pending"
RUNNING == "running"
SUCCESS == "success"
FAILED == "failed"
RETRY == "retry"
CANCELLED == "cancelled"
TaskStatus == {PENDING, RUNNING, SUCCESS, FAILED, RETRY, CANCELLED}

VARIABLES
    \* --- WorkflowEngine fields
    tasks,          \* self.tasks: task id -> Task (ids are 1..Len(tasks))
    task_queue,     \* self.task_queue: sequence of task ids (references)
    workers,        \* self.workers: bag of worker-loop states
    running,        \* self.running
    task_handlers,  \* self.task_handlers: type -> handler, or None
    stats,          \* self.stats
    \* --- callers
    monitors,       \* number of monitor loops created by start() that have
                    \* not returned (they are in no list of the engine)
    stop_pc,        \* position of the stop() call: "idle" or "gather"
    snap,           \* the latest get_task_status call: the id asked for, the
                    \* value returned and the task as the call left it (an
                    \* Optional is a set of at most one element)
    \* --- MainCoordinatorAgent.coordinate_episode_improvement, one call
    cycle_pc,       \* where the call stands: "idle" (not called), "gather"
                    \* (parallel analysis), "improver" (improvement), "returned"
    jobs,           \* the batch's run_agent_task coroutines, in roster order:
                    \* st "none", "running" or "done"; res the dict returned;
                    \* out (history) what the agent's execute did
    parallel_results, \* Optional: the slots execute_parallel_analysis returns
    integrated,     \* Optional: what integrate_analysis_results returns
    cycle_result,   \* Optional: what the call returns
    saved,          \* cycle records written by save_cycle_results
    episode_num,    \* the call's episode_num (0: none)
    phase_log,      \* history: the phases' starts and ends, in order
    \* --- MainCoordinatorAgent.execute, one call
    exec_pc,        \* where the call stands: "idle" (not called), "improve"
                    \* (in its one cycle), "review" (in a unit's cycle),
                    \* "pause" (between units), "returned", "raised"
    coord_task,     \* the task dict execute was called with
    cycle_results,  \* coordinate_full_review_cycle's list of cycle results
    exec_result,    \* Optional: what the call returns
    review_log,     \* history: the units' starts, returns and pauses
    \* --- InfiniteImprovementSystem
    iis,            \* the object: running, iteration_count, best_scores and
                    \* improvement_history (dicts keyed by unit),
                    \* last_improvement_time (per unit an Optional), and where
                    \* run_infinite_improvement stands: pc "new", "ready"
                    \* (initialized), "cycle" (in improvement_cycle, before
                    \* unit number `unit` of the list), "sleep", "ended" (the
                    \* loop is left), "finalized"
    iis_env,        \* the wall clock (hours since the driver started), the
                    \* history file (an Optional) and history: per unit the
                    \* highest and the latest score observed; the latest
                    \* improve_single_episode call; the dicts the driver held
                    \* at its latest save; how often finalize_improvements
                    \* was entered and how run_infinite_improvement ended
    \* --- GitHubCycleManager
    gcm,            \* self.state (current_cycle, max_cycles, last_scores as an
                    \* Optional), whether main() has configured it, and
                    \* (history) the number of run_single_cycle invocations
    \* --- history (not program state)
    hist,           \* per task: handler invocations, failures, last exception
    last_reg,       \* per type: handler argument of the latest register_handler call
    ret,            \* value returned by the latest add_task call (0: none yet)
    inflight_at_stop \* the lowest id among the tasks whose handler was
                    \* running when stop() was last called, until that task
                    \* reaches success or failed (0: none)

engineVars == <<tasks, task_queue, workers, running, task_handlers, stats>>
histVars == <<hist, last_reg, ret, inflight_at_stop>>
\* State of the engine's callers, which no engine method touches
cycleVars == <<cycle_pc, jobs, parallel_results, integrated, cycle_result,
               saved, episode_num, phase_log>>
execVars == <<exec_pc, coord_task, cycle_results, exec_result, review_log>>
driverVars == <<iis, iis_env, gcm>>
\* The engine and the callers, which a cycle does not touch
nonCycleVars == <<tasks, task_queue, workers, running, task_handlers, stats,
                  monitors, stop_pc, hist, last_reg, ret, inflight_at_stop, snap,
                  execVars, driverVars>>
callerVars == <<snap, cycleVars, execVars, driverVars>>
\* The engine and its client, which the coordinator and the drivers do not
\* touch
engineSide == <<tasks, task_queue, workers, running, task_handlers, stats,
                monitors, stop_pc, hist, last_reg, ret, inflight_at_stop, snap>>
vars == <<tasks, task_queue, workers, running, task_handlers, stats, monitors,
          stop_pc, hist, last_reg, ret, inflight_at_stop, callerVars>>

\* ---------------------------------------------------------------- helpers
TaskIds == 1..Len(tasks)

\* A Task as main.py constructs it: a fresh id, status pending, no retries yet.
NewTask(id, ty, k, p) ==
    [id |-> id, type |-> ty, payload |-> id, status |-> PENDING, priority |-> p,
     retry_count |-> 0, max_retries |-> k, result |-> None, error |-> None]

\* Handlers are black boxes payload -> result.  What a handler returns is a
\* function of the payload, as with the sample handlers (engine.py:231-244);
\* the message of the exception it raises names the attempt (the n-th of the
\* task), so that the messages of successive failures differ.
ReturnOf(h, payload) == "processed_" \o ToString(payload)
MessageOf(h, n) == "boom_" \o ToString(n)
\* str(ValueError(f"No handler for task type: {task.type}"))
NoHandlerMessage(ty) == "No handler for task type: " \o ty

\* A worker loop: where its coroutine stands, the task and the handler it
\* holds, and its backoff delay.  reg is history: the handler argument of the
\* latest register_handler call for the task's type when the attempt began.
\*   "new"     created by start(), not yet scheduled
\*   "get"     suspended in wait_for(task_queue.get(), 1.0)
\*   "handler" suspended in await handler(task.payload)
\*   "sleep"   suspended in the backoff sleep
\*   "done"    the coroutine has returned
Loop(pc, t, h, r, d) ==
    [pc |-> pc, task |-> t, handler |-> h, reg |-> r, delay |-> d]
FreshLoop == Loop("new", 0, None, None, 0)
IdleLoop(pc) == Loop(pc, 0, None, None, 0)
\* while self.running: the loop goes on to wait_for(task_queue.get()), or
\* falls out of the while and returns
LoopTest == IdleLoop(IF running THEN "get" ELSE "done")

WorkerSet == BagToSet(workers)
\* self.workers with loop w advanced to state w2
Advance(w, w2) == (workers (-) SetToBag({w})) (+) SetToBag({w2})
\* The worker loops that hold task id i
Holders(i) == {w \in WorkerSet : w.task = i}
HolderCount(i) ==
    LET S == Holders(i)
        f[T \in SUBSET S] ==
            IF T = {} THEN 0
            ELSE LET x == CHOOSE x \in T : TRUE IN CopiesIn(x, workers) + f[T \ {x}]
    IN f[S]
InQueue(i) == \E n \in 1..Len(task_queue) : task_queue[n] = i
LiveCount == BagCardinality(workers) - CopiesIn(IdleLoop("done"), workers)

\* ------------------------------------------------- coordinator: the batch
\* The agents of the parallel-analysis batch, in the order of the task list:
\* five rubric agents, the reader agent once per persona, the setting scan.
Rubrics == <<"writer", "grammar", "world_setting", "history", "correlation">>
NJobs == Len(Rubrics) + PersonaCount + 1
Agent(j) ==
    IF j <= Len(Rubrics) THEN Rubrics[j]
    ELSE IF j <= Len(Rubrics) + PersonaCount THEN "reader"
    ELSE "setting_improvement"
ReaderJobs == {j \in 1..NJobs : Agent(j) = "reader"}
\* The key under which an agent reports its score, and the area it scores
ScoreKey ==
    [writer |-> "story_score", grammar |-> "grammar_score",
     world_setting |-> "consistency_score", history |-> "timeline_score",
     correlation |-> "correlation_score", reader |-> "reader_score"]
Area ==
    [writer |-> "story", grammar |-> "grammar",
     world_setting |-> "world_consistency", history |-> "timeline",
     correlation |-> "correlation"]

\* Scores are in tenths (65 is 6.5); a quotient of scores is kept exact, as
\* the pair <<numerator, denominator>>, denominator positive.
Scores == {65, 70, 80}
FixThreshold == 80
HighThreshold == 70
DefaultScore == 70
FracAdd(a, b) == <<a[1] * b[2] + b[1] * a[2], a[2] * b[2]>>
FracDiv(a, n) == <<a[1], a[2] * n>>
FracLess(a, b) == a[1] * b[2] < b[1] * a[2]
FracEq(a, b) == a[1] * b[2] = b[1] * a[2]

\* A dict is a function from its keys.  What an agent's execute(task) may do:
\* return its dict (a scoring agent's holds its score, the setting scan's
\* holds none) or raise an exception.
ScoreDict(name, sc) == ScoreKey[name] :> sc
PlainDict == "errors_found" :> 3
ErrorDict(msg) == "error" :> msg
Returned(d) == [kind |-> "return", val |-> d]
Raised(msg) == [kind |-> "raise", val |-> ("message" :> msg)]
Outcomes(name) ==
    {Raised("agent_error")}
        \cup (IF name \in DOMAIN ScoreKey
              THEN {Returned(ScoreDict(name, sc)) : sc \in Scores}
              ELSE {Returned(PlainDict)})
\* What the improver agent's execute returns
ImproverDict == "improvements_made" :> <<"story">>

\* Variant: a job that raised is given the lowest score.
run_agent_task_ZeroScore(name, o) ==
    IF o.kind = "raise"
    THEN (IF name \in DOMAIN ScoreKey THEN ScoreDict(name, 0) ELSE PlainDict)
    ELSE o.val

\* run_agent_task(agent_name, task): what it returns when the agent's
\* execute did o
run_agent_task(name, o) ==
    IF o.kind = "raise" THEN ErrorDict(o.val.message) ELSE o.val

\* ------------------------------------------- integrate_analysis_results
\* The scores dict, in insertion order: one entry per rubric whose slot holds
\* its score key, then reader_average if any reader slot holds a score.
RubricEntries(pr) ==
    LET f[n \in 0..Len(Rubrics)] ==
            IF n = 0 THEN <<>>
            ELSE IF ScoreKey[Rubrics[n]] \in DOMAIN pr[n]
                 THEN Append(f[n - 1], [area |-> Area[Rubrics[n]],
                                        score |-> <<pr[n][ScoreKey[Rubrics[n]]], 1>>])
                 ELSE f[n - 1]
    IN  f[Len(Rubrics)]

\* reader_scores, in slot order
ReaderScores(pr) ==
    LET f[n \in Len(Rubrics)..(Len(Rubrics) + PersonaCount)] ==
            IF n = Len(Rubrics) THEN <<>>
            ELSE IF "reader_score" \in DOMAIN pr[n]
                 THEN Append(f[n - 1], pr[n].reader_score)
                 ELSE f[n - 1]
    IN  f[Len(Rubrics) + PersonaCount]

\* sum(...) of a list of numbers
Sum(q) ==
    LET f[n \in 0..Len(q)] == IF n = 0 THEN 0 ELSE f[n - 1] + q[n]
    IN  f[Len(q)]

CollectScores(pr) ==
    LET rs == ReaderScores(pr)
    IN  RubricEntries(pr) \o
        (IF rs # <<>>
         THEN <<[area |-> "reader_average", score |-> <<Sum(rs), Len(rs)>>]>>
         ELSE <<>>)

\* Variant: the mean is taken over all six areas, a missing one counting 0.
OverallScore_OverAllAreas(scores) ==
    LET f[n \in 0..Len(scores)] ==
            IF n = 0 THEN <<0, 1>> ELSE FracAdd(f[n - 1], scores[n].score)
    IN  IF scores = <<>> THEN <<DefaultScore, 1>>
        ELSE FracDiv(f[Len(scores)], Len(Rubrics) + 1)

\* overall_score: sum(scores.values()) / len(scores), or the default
OverallScore(scores) ==
    LET f[n \in 0..Len(scores)] ==
            IF n = 0 THEN <<0, 1>> ELSE FracAdd(f[n - 1], scores[n].score)
    IN  IF scores = <<>> THEN <<DefaultScore, 1>>
        ELSE FracDiv(f[Len(scores)], Len(scores))

\* Variant: an area at the threshold is listed too.
PriorityFixes_Inclusive(scores) ==
    LET f[n \in 0..Len(scores)] ==
            IF n = 0 THEN <<>>
            ELSE IF ~FracLess(<<FixThreshold, 1>>, scores[n].score)
                 THEN Append(f[n - 1],
                        [area |-> scores[n].area, score |-> scores[n].score,
                         priority |-> IF FracLess(scores[n].score, <<HighThreshold, 1>>)
                                      THEN "high" ELSE "medium"])
                 ELSE f[n - 1]
    IN  f[Len(scores)]

\* priority_fixes: the areas below 8.0, in the order of the scores dict
PriorityFixes(scores) ==
    LET f[n \in 0..Len(scores)] ==
            IF n = 0 THEN <<>>
            ELSE IF FracLess(scores[n].score, <<FixThreshold, 1>>)
                 THEN Append(f[n - 1],
                        [area |-> scores[n].area, score |-> scores[n].score,
                         priority |-> IF FracLess(scores[n].score, <<HighThreshold, 1>>)
                                      THEN "high" ELSE "medium"])
                 ELSE f[n - 1]
    IN  f[Len(scores)]

\* integrate_analysis_results(parallel_results); the issue and suggestion
\* lists and the timestamp are not modelled
integrate_analysis_results(pr) ==
    LET scores == CollectScores(pr)
    IN  [overall_score |-> OverallScore(scores),
         detailed_scores |-> scores,
         priority_fixes |-> PriorityFixes(scores),
         reader_feedback_count |-> Len(ReaderScores(pr))]

\* The target score execute_improvements asks the improver agent for (9.0)
ImproveTarget == 90
\* execute_improvements(episode_num, integrated_results): the task handed to
\* the improver agent
improvement_task(ep, ir) ==
    [type |-> "improve_episode",
     episode_number |-> ep,
     target_areas |-> ir.priority_fixes,
     target_score |-> ImproveTarget,
     analysis_results |-> ir]

\* MainCoordinatorAgent before any cycle is requested
CycleInit ==
    /\ cycle_pc = "idle"
    /\ jobs = [j \in 1..NJobs |-> [st |-> "none", res |-> {}, out |-> {}]]
    /\ parallel_results = {}
    /\ integrated = {}
    /\ cycle_result = {}
    /\ saved = <<>>
    /\ episode_num = 0
    /\ phase_log = <<>>

\* No execute(task) call has been made
ExecInit ==
    /\ exec_pc = "idle"
    /\ coord_task = [type |-> "none"]
    /\ cycle_results = <<>>
    /\ exec_result = {}
    /\ review_log = <<>>

\* ------------------------------------------------- improvement driver
\* The units the driver is given, its target score (9.5) and the scores a
\* review reports, in tenths
TargetEpisodes == <<1, 2>>
Units == {TargetEpisodes[i] : i \in 1..Len(TargetEpisodes)}
TargetScore == 95
DriverScores == {70, 90, 96}
\* Hours without improvement after which the driver escalates
EscalateAfter == 2
\* The progress report and the history save, every so many iterations
ReportEvery == 10
\* A unit at its target score is looked at every so many iterations
SparseEvery == 10
SaveEvery == 50
\* What review_single_episode does: report a score, or raise
ReviewOutcomes ==
    {[kind |-> "score", score |-> sc] : sc \in DriverScores}
        \cup {[kind |-> "raise", score |-> 0]}
NoCall == [episode |-> 0, iteration |-> 0, reviewed |-> FALSE, score |-> 0,
           met_before |-> FALSE, stale |-> FALSE, improved |-> FALSE,
           action |-> "none"]
Max(a, b) == IF a >= b THEN a ELSE b
Min(a, b) == IF a <= b THEN a ELSE b

\* The cycle manager's units, its target score (9.0) and the final scores a
\* cycle reports (0: the cycle returned an error), in tenths
BudgetEpisodes == <<1, 2>>
BudgetTarget == 90
BudgetScores == {0, 85, 90, 95}

\* The keys of a Python dict: an int and a str are different keys, whatever
\* they print as
IntKey(n) == <<"int", n>>
StrKey(str) == <<"str", str>>
EmptyDict == [k \in {} |-> 0]
\* d.get(k, default), and d after d[k] = v
Get(d, k, default) == IF k \in DOMAIN d THEN d[k] ELSE default
Put(d, k, v) == [x \in DOMAIN d \cup {k} |-> IF x = k THEN v ELSE d[x]]

\* json.dump writes a dict's int keys as strings, and json.load reads every
\* key back as a string
JsonKey(k) == IF k[1] = "int" THEN StrKey(ToString(k[2])) ELSE k
JsonDump(d) ==
    [k \in {JsonKey(x) : x \in DOMAIN d} |->
        d[CHOOSE x \in DOMAIN d : JsonKey(x) = k]]

\* The history file after save_improvement_history(): open(..., 'w') empties
\* it and json.dump writes save_data key by key, improvement_history and
\* best_scores before stats.  stats['start_time'] is None until initialize()
\* sets it to a datetime, which json.dump cannot serialise: it raises
\* TypeError and the file is left cut off inside stats.
save_improvement_history(d) ==
    [complete |-> d.start_time = None,
     improvement_history |-> JsonDump(d.improvement_history),
     best_scores |-> JsonDump(d.best_scores)]

\* load_improvement_history(): the driver's two dicts after it.  A missing
\* file leaves them as they are; so does a file json.load cannot parse (the
\* exception is caught and logged).
load_improvement_history(d, file) ==
    IF \E f \in file : f.complete
    THEN LET f == CHOOSE x \in file : TRUE
         IN  [d EXCEPT !.improvement_history = f.improvement_history,
                       !.best_scores = f.best_scores]
    ELSE d

\* evaluate_initial_state(): a unit without an entry gets its reviewed score
\* as best score and an empty history
evaluate_initial_state(d, init) ==
    LET f[n \in 0..Len(TargetEpisodes)] ==
            IF n = 0 THEN d
            ELSE LET k == IntKey(TargetEpisodes[n])
                     e == f[n - 1]
                 IN  [e EXCEPT
                        !.best_scores =
                            IF k \in DOMAIN @ THEN @ ELSE Put(@, k, init[TargetEpisodes[n]]),
                        !.improvement_history =
                            IF k \in DOMAIN @ THEN @ ELSE Put(@, k, <<>>)]
    IN  f[Len(TargetEpisodes)]

\* InfiniteImprovementSystem.__init__
NewDriver ==
    [pc |-> "new", running |-> FALSE, iteration_count |-> 0, unit |-> 0,
     best_scores |-> EmptyDict,
     improvement_history |-> EmptyDict,
     start_time |-> None,
     last_improvement_time |-> [u \in Units |-> {}]]

\* Neither driver has been constructed; no history file exists
DriverInit ==
    /\ iis = NewDriver
    /\ iis_env = [now |-> 0, highest |-> [u \in Units |-> 0],
                  latest |-> [u \in Units |-> 0], last |-> NoCall,
                  file |-> {}, saved |-> {}, finalized |-> 0, exit |-> "none"]
    /\ gcm = [configured |-> FALSE, current_cycle |-> 1, max_cycles |-> 10,
              last_scores |-> {}, invocations |-> 0]

\* initialize(): the history file is loaded if there is one, then
\* evaluate_initial_state reviews every unit (init: the scores reported)
Initialize(init) ==
    /\ iis.pc = "new"
    /\ iis' = [evaluate_initial_state(load_improvement_history(iis, iis_env.file), init)
                 EXCEPT !.pc = "ready", !.start_time = "datetime"]
    /\ iis_env' = [iis_env EXCEPT !.highest = init, !.latest = init]
    /\ UNCHANGED <<gcm, engineSide, cycleVars, execVars>>

\* run_infinite_improvement up to its first await: the loop is entered and
\* improvement_cycle counts its iteration
Run ==
    /\ iis.pc = "ready"
    /\ iis' = [iis EXCEPT !.pc = "cycle", !.running = TRUE,
                          !.iteration_count = @ + 1, !.unit = 1]
    /\ UNCHANGED <<iis_env, gcm, engineSide, cycleVars, execVars>>

\* stop()
DriverStop ==
    /\ iis.running
    /\ iis' = [iis EXCEPT !.running = FALSE]
    /\ UNCHANGED <<iis_env, gcm, engineSide, cycleVars, execVars>>

\* improve_single_episode(episode_num) for the next unit of the list, called
\* by improvement_cycle, which catches what it raises.  The improver's own
\* failures are caught inside perform_improvement_actions and
\* perform_intensive_improvement and change nothing here.
ImproveSingleEpisode(o) ==
    /\ iis.pc = "cycle"
    /\ iis.unit <= Len(TargetEpisodes)
    /\ LET ep == TargetEpisodes[iis.unit]
           now == iis_env.now
           since == iis.last_improvement_time[ep]
           call == [NoCall EXCEPT
                      !.episode = ep, !.iteration = iis.iteration_count,
                      !.reviewed = TRUE,
                      !.met_before = (iis_env.latest[ep] >= TargetScore),
                      !.stale = IF since = {} THEN now > EscalateAfter
                                ELSE \E t \in since : now - t > EscalateAfter]
       IN  IF o.kind = "raise"
           THEN /\ iis' = [iis EXCEPT !.unit = @ + 1]
                /\ iis_env' = [iis_env EXCEPT !.last = call]
           ELSE LET current_score == o.score
                    old_score == Get(iis.best_scores, IntKey(ep), 0)
                    score_improved == current_score > old_score
                    seen == [iis_env EXCEPT
                               !.highest[ep] = Max(@, current_score),
                               !.latest[ep] = current_score]
                IN  IF current_score >= TargetScore
                    THEN /\ iis' = [iis EXCEPT !.unit = @ + 1]
                         /\ iis_env' = [seen EXCEPT
                                          !.last = [call EXCEPT !.score = current_score]]
                    ELSE /\ iis' = [iis EXCEPT
                              !.unit = @ + 1,
                              !.best_scores =
                                  IF score_improved
                                  THEN Put(@, IntKey(ep), current_score) ELSE @,
                              !.improvement_history[IntKey(ep)] =
                                  IF score_improved
                                  THEN Append(@, [old_score |-> old_score,
                                                  new_score |-> current_score,
                                                  improvement |-> current_score - old_score])
                                  ELSE @,
                              !.last_improvement_time[ep] =
                                  IF score_improved THEN {now} ELSE @]
                         /\ iis_env' = [seen EXCEPT
                              !.last = [call EXCEPT
                                  !.score = current_score,
                                  !.improved = score_improved,
                                  !.action =
                                      IF score_improved \/ since = {} THEN "narrow"
                                      ELSE IF \E t \in since : now - t > EscalateAfter
                                           THEN "intensive" ELSE "none"]]
    /\ UNCHANGED <<gcm, engineSide, cycleVars, execVars>>

\* The driver's save_improvement_history() call: the file it leaves, and
\* (history) the dicts it was to save
Saved(env) ==
    [env EXCEPT !.file = {save_improvement_history(iis)},
                !.saved = {[best_scores |-> iis.best_scores,
                            improvement_history |-> iis.improvement_history]}]

\* The end of improvement_cycle after the last unit: every ReportEvery
\* iterations the progress report (rp: "ok" or "raise"), every SaveEvery the
\* history save.  What they raise leaves improvement_cycle and is caught
\* outside the loop of run_infinite_improvement, which ends; otherwise the
\* loop sleeps if running, and ends if not.
CycleEnd(rp) ==
    /\ iis.pc = "cycle"
    /\ iis.unit > Len(TargetEpisodes)
    /\ LET report_raised == iis.iteration_count % ReportEvery = 0 /\ rp = "raise"
           saves == ~report_raised /\ iis.iteration_count % SaveEvery = 0
           raised == report_raised
                        \/ (saves /\ ~save_improvement_history(iis).complete)
       IN  /\ iis' = [iis EXCEPT
                        !.pc = IF raised \/ ~iis.running THEN "ended" ELSE "sleep"]
           /\ iis_env' = IF saves THEN Saved(iis_env) ELSE iis_env
    /\ UNCHANGED <<gcm, engineSide, cycleVars, execVars>>

\* finally: finalize_improvements().  It reviews every unit once more (rv:
\* the reviews return, or one raises), prints, and saves the history; what
\* it raises leaves run_infinite_improvement.
Finalize(rv) ==
    /\ iis.pc = "ended"
    /\ iis' = [iis EXCEPT !.pc = "finalized"]
    /\ LET env == [iis_env EXCEPT !.finalized = @ + 1]
       IN  iis_env' =
              IF rv = "raise" THEN [env EXCEPT !.exit = "raised"]
              ELSE [Saved(env) EXCEPT
                      !.exit = IF save_improvement_history(iis).complete
                               THEN "returned" ELSE "raised"]
    /\ UNCHANGED <<gcm, engineSide, cycleVars, execVars>>

\* The program is run again: main() constructs a new driver; the history
\* file is what the run before left
Restart ==
    /\ iis.pc = "finalized"
    /\ iis' = NewDriver
    /\ iis_env' = [iis_env EXCEPT !.finalized = 0, !.exit = "none", !.last = NoCall]
    /\ UNCHANGED <<gcm, engineSide, cycleVars, execVars>>

\* asyncio.sleep(60) returns after dt hours (the reviews' and improvements'
\* time is counted here); the loop tests running and enters the next
\* improvement_cycle
SleepEnd(dt) ==
    /\ iis.pc = "sleep"
    /\ iis.running => iis.iteration_count < MaxIterations
    /\ iis_env' = [iis_env EXCEPT !.now = Min(@ + dt, MaxHours)]
    /\ iis' = IF iis.running
              THEN [iis EXCEPT !.pc = "cycle", !.iteration_count = @ + 1, !.unit = 1]
              ELSE [iis EXCEPT !.pc = "ended"]
    /\ UNCHANGED <<gcm, engineSide, cycleVars, execVars>>

\* ------------------------------------------------------- cycle manager
\* should_continue()
should_continue ==
    /\ ~(gcm.current_cycle > gcm.max_cycles)
    /\ ~\E ls \in gcm.last_scores :
          \A ep \in DOMAIN ls : ls[ep] >= BudgetTarget

\* main() of a new run: it sets max_cycles from the command line
Configure(mc) ==
    /\ ~gcm.configured
    /\ gcm' = [gcm EXCEPT !.configured = TRUE, !.max_cycles = mc]
    /\ UNCHANGED <<iis, iis_env, engineSide, cycleVars, execVars>>

\* Variant: the cycle counter is left as it is.
run_single_cycle_NoCount(scores) ==
    /\ gcm.configured
    /\ gcm.invocations = 0 \/ should_continue
    /\ gcm.invocations <= MaxCycles
    /\ gcm' = [gcm EXCEPT !.last_scores = {scores}, !.invocations = @ + 1]
    /\ UNCHANGED <<iis, iis_env, engineSide, cycleVars, execVars>>

\* run_single_cycle(), returning: every unit's cycle reports its final
\* score.  main() invokes it once; it is invoked again only while
\* should_continue().
run_single_cycle(scores) ==
    /\ gcm.configured
    /\ gcm.invocations = 0 \/ should_continue
    /\ gcm' = [gcm EXCEPT !.current_cycle = @ + 1, !.last_scores = {scores},
                          !.invocations = @ + 1]
    /\ UNCHANGED <<iis, iis_env, engineSide, cycleVars, execVars>>

\* ------------------------------------------------------------------- Init
\* WorkflowEngine.__init__
Init ==
    /\ tasks = <<>>
    /\ task_queue = <<>>
    /\ workers = EmptyBag
    /\ running = FALSE
    /\ task_handlers = [ty \in Types |-> None]
    /\ stats = [total_tasks |-> 0, completed_tasks |-> 0,
                failed_tasks |-> 0, retry_tasks |-> 0]
    /\ monitors = 0
    /\ stop_pc = "idle"
    /\ snap = [id |-> 0, value |-> {}, seen |-> {}]
    /\ CycleInit
    /\ ExecInit
    /\ DriverInit
    /\ hist = <<>>
    /\ last_reg = [ty \in Types |-> None]
    /\ ret = 0
    /\ inflight_at_stop = 0

\* --------------------------------------------------------- engine methods
\* Variant: a type that already has a handler keeps it.
RegisterHandler_KeepFirst(ty, h) ==
    /\ task_handlers' = IF task_handlers[ty] = None
                        THEN [task_handlers EXCEPT ![ty] = h]
                        ELSE task_handlers
    /\ last_reg' = [last_reg EXCEPT ![ty] = h]
    /\ UNCHANGED <<tasks, task_queue, workers, running, stats, stop_pc,
                   hist, ret, monitors, callerVars, inflight_at_stop>>

\* register_handler(task_type, handler)
RegisterHandler(ty, h) ==
    /\ task_handlers' = [task_handlers EXCEPT ![ty] = h]
    /\ last_reg' = [last_reg EXCEPT ![ty] = h]
    /\ UNCHANGED <<tasks, task_queue, workers, running, stats, stop_pc,
                   hist, ret, monitors, callerVars, inflight_at_stop>>

\* Variant: the queue is a priority queue: the task goes in front of the
\* first queued task of lower priority.
AddTask_ByPriority(ty, k, p) ==
    /\ Len(tasks) < MaxTasks
    /\ LET id == Len(tasks) + 1
           ahead == {n \in 0..Len(task_queue) :
                       \A m \in 1..n : tasks[task_queue[m]].priority >= p}
           at == CHOOSE n \in ahead : \A m \in ahead : m <= n
       IN
        /\ tasks' = Append(tasks, NewTask(id, ty, k, p))
        /\ task_queue' = SubSeq(task_queue, 1, at) \o <<id>>
                             \o SubSeq(task_queue, at + 1, Len(task_queue))
        /\ stats' = [stats EXCEPT !.total_tasks = @ + 1]
        /\ ret' = id
        /\ hist' = Append(hist, [invoked |-> 0, failed |-> 0, last_exc |-> None])
    /\ UNCHANGED <<workers, running, task_handlers, stop_pc,
                   last_reg, inflight_at_stop, monitors, callerVars>>

\* Variant: the task is put at the front of the queue.
AddTask_Front(ty, k, p) ==
    /\ Len(tasks) < MaxTasks
    /\ LET id == Len(tasks) + 1 IN
        /\ tasks' = Append(tasks, NewTask(id, ty, k, p))
        /\ task_queue' = <<id>> \o task_queue
        /\ stats' = [stats EXCEPT !.total_tasks = @ + 1]
        /\ ret' = id
        /\ hist' = Append(hist, [invoked |-> 0, failed |-> 0, last_exc |-> None])
    /\ UNCHANGED <<workers, running, task_handlers, stop_pc,
                   last_reg, inflight_at_stop, monitors, callerVars>>

\* add_task(task), task a fresh Task of type ty with max_retries k and
\* priority p
AddTask(ty, k, p) ==
    /\ Len(tasks) < MaxTasks
    /\ LET id == Len(tasks) + 1 IN
        /\ tasks' = Append(tasks, NewTask(id, ty, k, p))
        /\ task_queue' = Append(task_queue, id)
        /\ stats' = [stats EXCEPT !.total_tasks = @ + 1]
        /\ ret' = id
        /\ hist' = Append(hist, [invoked |-> 0, failed |-> 0, last_exc |-> None])
    /\ UNCHANGED <<workers, running, task_handlers, stop_pc,
                   last_reg, inflight_at_stop, monitors, callerVars>>

\* Task.to_dict(): a new dict of the task's fields (asdict copies them), the
\* status given by its value.  The timestamps are not modelled.
to_dict(t) ==
    [id |-> t.id, type |-> t.type, payload |-> t.payload, status |-> t.status,
     priority |-> t.priority, retry_count |-> t.retry_count,
     max_retries |-> t.max_retries, result |-> t.result, error |-> t.error]

\* Variant: to_dict() writes the status value into the task itself instead
\* of into a copy.
GetTaskStatus_NoCopy(id) ==
    /\ tasks' = IF id \in TaskIds
                THEN [tasks EXCEPT ![id].status = "value:" \o @]
                ELSE tasks
    /\ snap' = [id |-> id,
                value |-> IF id \in TaskIds THEN {to_dict(tasks[id])} ELSE {},
                seen |-> IF id \in TaskIds THEN {tasks'[id]} ELSE {}]
    /\ UNCHANGED <<task_queue, workers, running, task_handlers, stats,
                   monitors, stop_pc, hist, last_reg, ret, inflight_at_stop,
                   cycleVars, execVars, driverVars>>

\* get_task_status(task_id): the task's dict, or None (the empty set) for
\* an unknown id
GetTaskStatus(id) ==
    /\ snap' = [id |-> id,
                value |-> IF id \in TaskIds THEN {to_dict(tasks[id])} ELSE {},
                seen |-> IF id \in TaskIds THEN {tasks[id]} ELSE {}]
    /\ UNCHANGED <<tasks, task_queue, workers, running, task_handlers, stats,
                   monitors, stop_pc, hist, last_reg, ret, inflight_at_stop,
                   cycleVars, execVars, driverVars>>

\* get_stats(): the counters, the queue's size and the length of
\* self.workers (tasks_by_status is not modelled)
get_stats ==
    [total_tasks |-> stats.total_tasks,
     completed_tasks |-> stats.completed_tasks,
     failed_tasks |-> stats.failed_tasks,
     retry_tasks |-> stats.retry_tasks,
     queue_size |-> Len(task_queue),
     active_workers |-> BagCardinality(workers)]

\* ----------------------------------------------------------- process_task
\* Variant: the retry test admits one retry too many.
CanRetry_Inclusive(t) == t.retry_count <= t.max_retries

\* if task.retry_count < task.max_retries
CanRetry(t) == t.retry_count < t.max_retries

\* Variant: the delay is computed from the retry count before its increment.
Backoff_FromZero(n) == 2 ^ (n - 1)

\* 2 ** task.retry_count
Backoff(n) == 2 ^ n

\* Variant: the success branch does not store the handler's return value.
OnSuccess_NoResult(t, r) == [t EXCEPT !.status = SUCCESS]

\* The task after the success branch: status, result (completed_at is not modelled)
OnSuccess(t, r) == [t EXCEPT !.status = SUCCESS, !.result = r]

\* Variant: retry_count is incremented on the final failure too.
OnFailure_AlwaysCount(t, msg) ==
    [t EXCEPT !.error = msg, !.retry_count = @ + 1,
              !.status = IF CanRetry(t) THEN RETRY ELSE FAILED]

\* The task after the except branch, entered with exception message msg
OnFailure(t, msg) ==
    IF CanRetry(t)
    THEN [t EXCEPT !.error = msg, !.retry_count = @ + 1, !.status = RETRY]
    ELSE [t EXCEPT !.error = msg, !.status = FAILED]

\* Variant: the task is put back on the queue before the backoff sleep.
Except_PutFirst(w, i, msg, q) ==
    /\ tasks' = [tasks EXCEPT ![i] = OnFailure(@, msg)]
    /\ hist' = [hist EXCEPT ![i].failed = @ + 1, ![i].last_exc = msg]
    /\ IF CanRetry(tasks[i])
       THEN /\ task_queue' = Append(q, i)
            /\ stats' = [stats EXCEPT !.retry_tasks = @ + 1]
            /\ workers' = Advance(w, Loop("sleep", i, None, None,
                                          Backoff(tasks[i].retry_count + 1)))
            /\ UNCHANGED inflight_at_stop
       ELSE /\ task_queue' = q
            /\ stats' = [stats EXCEPT !.failed_tasks = @ + 1]
            /\ workers' = Advance(w, LoopTest)
            /\ inflight_at_stop' = IF inflight_at_stop = i THEN 0 ELSE inflight_at_stop

\* The except branch of process_task run by worker loop w on task i, up to
\* its suspension in the backoff sleep (retry) or through its return and the
\* worker's while test (failed).  q is the queue as the caller leaves it.
Except(w, i, msg, q) ==
    /\ tasks' = [tasks EXCEPT ![i] = OnFailure(@, msg)]
    /\ task_queue' = q
    /\ hist' = [hist EXCEPT ![i].failed = @ + 1, ![i].last_exc = msg]
    /\ IF CanRetry(tasks[i])
       THEN /\ stats' = [stats EXCEPT !.retry_tasks = @ + 1]
            /\ workers' = Advance(w, Loop("sleep", i, None, None,
                                          Backoff(tasks[i].retry_count + 1)))
            /\ UNCHANGED inflight_at_stop
       ELSE /\ stats' = [stats EXCEPT !.failed_tasks = @ + 1]
            /\ workers' = Advance(w, LoopTest)
            /\ inflight_at_stop' = IF inflight_at_stop = i THEN 0 ELSE inflight_at_stop

\* ----------------------------------------------------------------- worker
\* The worker coroutine is first scheduled and reaches its while test
WorkerBegin(w) ==
    /\ w.pc = "new"
    /\ workers' = Advance(w, LoopTest)
    /\ UNCHANGED <<tasks, task_queue, running, task_handlers, stats, stop_pc,
                   hist, last_reg, ret, monitors, callerVars, inflight_at_stop>>

\* except asyncio.TimeoutError: continue
WorkerTimeout(w) ==
    /\ w.pc = "get"
    /\ workers' = Advance(w, LoopTest)
    /\ UNCHANGED <<tasks, task_queue, running, task_handlers, stats, stop_pc,
                   hist, last_reg, ret, monitors, callerVars, inflight_at_stop>>

\* Variant: a missing handler fails the task at once, without retry.
WorkerDequeue_NoRetry(w) ==
    /\ w.pc = "get"
    /\ task_queue # <<>>
    /\ LET i == Head(task_queue)
           h == task_handlers[tasks[i].type]
       IN  IF h = None
           THEN /\ tasks' = [tasks EXCEPT ![i].status = FAILED,
                                          ![i].error = NoHandlerMessage(tasks[i].type)]
                /\ task_queue' = Tail(task_queue)
                /\ hist' = [hist EXCEPT ![i].failed = @ + 1,
                                        ![i].last_exc = NoHandlerMessage(tasks[i].type)]
                /\ stats' = [stats EXCEPT !.failed_tasks = @ + 1]
                /\ workers' = Advance(w, LoopTest)
                /\ UNCHANGED inflight_at_stop
           ELSE /\ tasks' = [tasks EXCEPT ![i].status = RUNNING]
                /\ task_queue' = Tail(task_queue)
                /\ workers' = Advance(w, Loop("handler", i, h,
                                              last_reg[tasks[i].type], 0))
                /\ hist' = [hist EXCEPT ![i].invoked = @ + 1]
                /\ UNCHANGED <<stats, inflight_at_stop>>
    /\ UNCHANGED <<running, task_handlers, stop_pc, last_reg, ret, monitors, callerVars>>

\* Variant: the backoff sleep does not keep the worker from the queue.
WorkerDequeue_WhileSleeping(w) ==
    /\ w.pc \in {"get", "sleep"}
    /\ task_queue # <<>>
    /\ LET i == Head(task_queue)
           h == task_handlers[tasks[i].type]
       IN  IF h = None
           THEN Except(w, i, NoHandlerMessage(tasks[i].type), Tail(task_queue))
           ELSE /\ tasks' = [tasks EXCEPT ![i].status = RUNNING]
                /\ task_queue' = Tail(task_queue)
                /\ workers' = Advance(w, Loop("handler", i, h,
                                              last_reg[tasks[i].type], 0))
                /\ hist' = [hist EXCEPT ![i].invoked = @ + 1]
                /\ UNCHANGED <<stats, inflight_at_stop>>
    /\ UNCHANGED <<running, task_handlers, stop_pc, last_reg, ret, monitors, callerVars>>

\* task_queue.get() returns a task; process_task runs up to its first
\* suspension: the handler is looked up and either called, or the missing
\* handler raises ValueError into the except branch.
WorkerDequeue(w) ==
    /\ w.pc = "get"
    /\ task_queue # <<>>
    /\ LET i == Head(task_queue)
           h == task_handlers[tasks[i].type]
       IN  IF h = None
           THEN Except(w, i, NoHandlerMessage(tasks[i].type), Tail(task_queue))
           ELSE /\ tasks' = [tasks EXCEPT ![i].status = RUNNING]
                /\ task_queue' = Tail(task_queue)
                /\ workers' = Advance(w, Loop("handler", i, h,
                                              last_reg[tasks[i].type], 0))
                /\ hist' = [hist EXCEPT ![i].invoked = @ + 1]
                /\ UNCHANGED <<stats, inflight_at_stop>>
    /\ UNCHANGED <<running, task_handlers, stop_pc, last_reg, ret, monitors, callerVars>>

\* result = await handler(task.payload) returns: the success branch
HandlerReturn(w) ==
    /\ w.pc = "handler"
    /\ tasks' = [tasks EXCEPT ![w.task] = OnSuccess(@, ReturnOf(w.handler, @.payload))]
    /\ stats' = [stats EXCEPT !.completed_tasks = @ + 1]
    /\ workers' = Advance(w, LoopTest)
    /\ inflight_at_stop' = IF inflight_at_stop = w.task THEN 0 ELSE inflight_at_stop
    /\ UNCHANGED <<task_queue, running, task_handlers, stop_pc,
                   hist, last_reg, ret, monitors, callerVars>>

\* await handler(task.payload) raises: the except branch
HandlerRaise(w) ==
    /\ w.pc = "handler"
    /\ Except(w, w.task, MessageOf(w.handler, tasks[w.task].retry_count + 1), task_queue)
    /\ UNCHANGED <<running, task_handlers, stop_pc, last_reg, ret, monitors, callerVars>>

\* Variant: the task is not put back on the queue after the backoff.
BackoffDone_Lose(w) ==
    /\ w.pc = "sleep"
    /\ workers' = Advance(w, LoopTest)
    /\ UNCHANGED <<tasks, task_queue, running, task_handlers, stats, stop_pc,
                   hist, last_reg, ret, monitors, callerVars, inflight_at_stop>>

\* Variant: the retried task is put at the front of the queue.
BackoffDone_Front(w) ==
    /\ w.pc = "sleep"
    /\ task_queue' = <<w.task>> \o task_queue
    /\ workers' = Advance(w, LoopTest)
    /\ UNCHANGED <<tasks, running, task_handlers, stats, stop_pc,
                   hist, last_reg, ret, monitors, callerVars, inflight_at_stop>>

\* Variant: a worker that finds the engine stopped after its backoff returns
\* without putting the task back.
BackoffDone_OnlyIfRunning(w) ==
    /\ w.pc = "sleep"
    /\ task_queue' = IF running THEN Append(task_queue, w.task) ELSE task_queue
    /\ workers' = Advance(w, LoopTest)
    /\ UNCHANGED <<tasks, running, task_handlers, stats, stop_pc,
                   hist, last_reg, ret, monitors, callerVars, inflight_at_stop>>

\* Variant: the retried task is put back the way a new task is added, which
\* counts it as a submission.
BackoffDone_AsSubmission(w) ==
    /\ w.pc = "sleep"
    /\ task_queue' = Append(task_queue, w.task)
    /\ stats' = [stats EXCEPT !.total_tasks = @ + 1]
    /\ workers' = Advance(w, LoopTest)
    /\ UNCHANGED <<tasks, running, task_handlers, stop_pc,
                   hist, last_reg, ret, monitors, callerVars, inflight_at_stop>>

\* the backoff sleep ends: await self.task_queue.put(task); return False
BackoffDone(w) ==
    /\ w.pc = "sleep"
    /\ task_queue' = Append(task_queue, w.task)
    /\ workers' = Advance(w, LoopTest)
    /\ UNCHANGED <<tasks, running, task_handlers, stats, stop_pc,
                   hist, last_reg, ret, monitors, callerVars, inflight_at_stop>>

\* -------------------------------------------------------------- lifecycle
\* Variant: start() does not test self.running.
Start_NoCheck ==
    /\ stop_pc = "idle"
    /\ BagCardinality(workers) <= WorkerCount
    /\ running' = TRUE
    /\ workers' = workers (+) (FreshLoop :> WorkerCount)
    /\ monitors' = monitors + 1
    /\ inflight_at_stop' = 0
    /\ UNCHANGED <<tasks, task_queue, task_handlers, stats, stop_pc,
                   hist, last_reg, ret, callerVars>>

\* start() and stop() are called by the application's startup and shutdown
\* events (main.py:57-68), one call after the other: no start() is issued
\* while a stop() call is still waiting in gather.
Start ==
    /\ stop_pc = "idle"
    /\ IF running
       THEN UNCHANGED vars
       ELSE /\ BagCardinality(workers) + WorkerCount <= MaxLoopBatches * WorkerCount
            /\ monitors < MaxLoopBatches
            /\ running' = TRUE
            /\ workers' = workers (+) (FreshLoop :> WorkerCount)
            /\ monitors' = monitors + 1
            /\ inflight_at_stop' = 0
            /\ UNCHANGED <<tasks, task_queue, task_handlers, stats, stop_pc,
                           hist, last_reg, ret, callerVars>>

\* A monitor loop is scheduled, or wakes from its 5 s sleep (and logs): it
\* tests self.running, and sleeps again or returns.  The loop reads the
\* engine's fields and writes none.
MonitorStep ==
    /\ monitors > 0
    /\ monitors' = IF running THEN monitors ELSE monitors - 1
    /\ UNCHANGED <<tasks, task_queue, workers, running, task_handlers, stats,
                   stop_pc, hist, last_reg, ret, inflight_at_stop, callerVars>>

\* Variant: stop() cancels the worker loops.
StopBegin_Cancel ==
    /\ stop_pc = "idle"
    /\ running' = FALSE
    /\ stop_pc' = "gather"
    /\ workers' = IF workers = EmptyBag THEN EmptyBag
                  ELSE IdleLoop("done") :> BagCardinality(workers)
    /\ inflight_at_stop' =
        LET held == {w.task : w \in {x \in WorkerSet : x.pc = "handler"}}
        IN  IF held = {} THEN 0 ELSE CHOOSE i \in held : \A j \in held : i <= j
    /\ UNCHANGED <<tasks, task_queue, task_handlers, stats,
                   hist, last_reg, ret, monitors, callerVars>>

\* stop(), up to the gather
StopBegin ==
    /\ stop_pc = "idle"
    /\ running' = FALSE
    /\ stop_pc' = "gather"
    /\ inflight_at_stop' =
        LET held == {w.task : w \in {x \in WorkerSet : x.pc = "handler"}}
        IN  IF held = {} THEN 0 ELSE CHOOSE i \in held : \A j \in held : i <= j
    /\ UNCHANGED <<tasks, task_queue, workers, task_handlers, stats,
                   hist, last_reg, ret, monitors, callerVars>>

\* Variant: stop() does not wait for the worker loops.
StopReturn_NoWait ==
    /\ stop_pc = "gather"
    /\ workers' = EmptyBag
    /\ stop_pc' = "idle"
    /\ UNCHANGED <<tasks, task_queue, running, task_handlers, stats,
                   hist, last_reg, ret, monitors, callerVars, inflight_at_stop>>

\* stop(), from the gather on: every awaited worker loop has returned
StopReturn ==
    /\ stop_pc = "gather"
    /\ \A w \in WorkerSet : w.pc = "done"
    /\ workers' = EmptyBag
    /\ stop_pc' = "idle"
    /\ UNCHANGED <<tasks, task_queue, running, task_handlers, stats,
                   hist, last_reg, ret, monitors, callerVars, inflight_at_stop>>

\* POST /engine/pause and /engine/resume, served once the application is up
Pause ==
    /\ workers # EmptyBag
    /\ running' = FALSE
    /\ UNCHANGED <<tasks, task_queue, workers, task_handlers, stats, stop_pc,
                   hist, last_reg, ret, monitors, callerVars, inflight_at_stop>>

Resume ==
    /\ workers # EmptyBag
    /\ running' = TRUE
    /\ UNCHANGED <<tasks, task_queue, workers, task_handlers, stats, stop_pc,
                   hist, last_reg, ret, monitors, callerVars, inflight_at_stop>>

\* ------------------------------------------------- coordinator: one cycle
\* A phase's start and end, as logged
Started(ph) == [phase |-> ph, ev |-> "start"]
Ended(ph) == [phase |-> ph, ev |-> "end"]
\* The error result of a cycle whose phase raised
CycleError(ep, msg) == [episode_number |-> ep, status |-> "error", error |-> msg]

\* Variant: an exception of the status analysis is swallowed and the cycle
\* goes on to the parallel analysis.
CycleCall_IgnoreAnalysisError(ep, st) ==
    /\ cycle_pc = "idle"
    /\ IF ep = 0
       THEN /\ cycle_result' = {[error |-> "episode_number_required"]}
            /\ cycle_pc' = "returned"
            /\ UNCHANGED <<jobs, episode_num, phase_log>>
       ELSE /\ cycle_pc' = "gather"
            /\ episode_num' = ep
            /\ jobs' = [j \in 1..NJobs |-> [st |-> "running", res |-> {}, out |-> {}]]
            /\ phase_log' = IF st = "raise"
                            THEN <<Started("analysis"), Started("parallel")>>
                            ELSE <<Started("analysis"), Ended("analysis"), Started("parallel")>>
            /\ UNCHANGED cycle_result
    /\ UNCHANGED <<parallel_results, integrated, saved, nonCycleVars>>

\* coordinate_episode_improvement(task) up to its first suspension: without
\* an episode number it returns an error; else phase 1 runs (st: the status
\* analysis returns, or raises) and phase 2 creates the batch's jobs and
\* waits in gather.
CycleCall(ep, st) ==
    /\ cycle_pc = "idle"
    /\ IF ep = 0
       THEN /\ cycle_result' = {[error |-> "episode_number_required"]}
            /\ cycle_pc' = "returned"
            /\ UNCHANGED <<jobs, episode_num, phase_log>>
       ELSE IF st = "raise"
       THEN /\ cycle_result' = {CycleError(ep, "analysis_error")}
            /\ cycle_pc' = "returned"
            /\ episode_num' = ep
            /\ phase_log' = <<Started("analysis")>>
            /\ UNCHANGED jobs
       ELSE /\ cycle_pc' = "gather"
            /\ episode_num' = ep
            /\ jobs' = [j \in 1..NJobs |-> [st |-> "running", res |-> {}, out |-> {}]]
            /\ phase_log' = <<Started("analysis"), Ended("analysis"), Started("parallel")>>
            /\ UNCHANGED cycle_result
    /\ UNCHANGED <<parallel_results, integrated, saved, nonCycleVars>>

\* Job j of the batch ends: its agent's execute did o, and run_agent_task
\* returns
JobEnd(j, o) ==
    /\ cycle_pc = "gather"
    /\ jobs[j].st = "running"
    /\ jobs' = [jobs EXCEPT ![j] = [st |-> "done", out |-> {o},
                                    res |-> {run_agent_task(Agent(j), o)}]]
    /\ UNCHANGED <<cycle_pc, parallel_results, integrated, cycle_result, saved,
                   episode_num, phase_log, nonCycleVars>>

\* The slots of parallel_results, in roster order (the slot of a job that has
\* not ended holds an error entry)
Slots ==
    [j \in 1..NJobs |->
        IF jobs[j].res = {} THEN ErrorDict("pending")
        ELSE CHOOSE d \in jobs[j].res : TRUE]

\* Variant: the batch is awaited only until its first job has ended.
GatherReturn_FirstDone ==
    /\ cycle_pc = "gather"
    /\ \E j \in 1..NJobs : jobs[j].st = "done"
    /\ parallel_results' = {Slots}
    /\ integrated' = {integrate_analysis_results(Slots)}
    /\ cycle_pc' = "improver"
    /\ phase_log' = phase_log \o <<Ended("parallel"), Started("integration"),
                                   Ended("integration"), Started("improvement")>>
    /\ UNCHANGED <<jobs, cycle_result, saved, episode_num, nonCycleVars>>

\* Variant: the improvement phase is started before the integration.
GatherReturn_ImproveFirst ==
    /\ cycle_pc = "gather"
    /\ \A j \in 1..NJobs : jobs[j].st = "done"
    /\ parallel_results' = {Slots}
    /\ integrated' = {integrate_analysis_results(Slots)}
    /\ cycle_pc' = "improver"
    /\ phase_log' = phase_log \o <<Ended("parallel"), Started("improvement"),
                                   Started("integration"), Ended("integration")>>
    /\ UNCHANGED <<jobs, cycle_result, saved, episode_num, nonCycleVars>>

\* gather returns once every job of the batch has ended: phase 2 builds
\* parallel_results, phase 3 integrates them, and phase 4 calls the improver
\* agent and waits for it.
GatherReturn ==
    /\ cycle_pc = "gather"
    /\ \A j \in 1..NJobs : jobs[j].st = "done"
    /\ parallel_results' = {Slots}
    /\ integrated' = {integrate_analysis_results(Slots)}
    /\ cycle_pc' = "improver"
    /\ phase_log' = phase_log \o <<Ended("parallel"), Started("integration"),
                                   Ended("integration"), Started("improvement")>>
    /\ UNCHANGED <<jobs, cycle_result, saved, episode_num, nonCycleVars>>

\* The improver agent's execute did o; phase 5 writes the cycle record (sv:
\* the write succeeds, or raises) and the call returns.
ImprovementEnd(o, sv) ==
    /\ cycle_pc = "improver"
    /\ cycle_pc' = "returned"
    /\ LET improvements == run_agent_task("episode_improver", o)
           ir == CHOOSE r \in integrated : TRUE
       IN  IF sv = "raise"
           THEN /\ cycle_result' = {CycleError(episode_num, "save_error")}
                /\ phase_log' = phase_log \o <<Ended("improvement"), Started("persistence")>>
                /\ UNCHANGED saved
           ELSE /\ saved' = Append(saved,
                      [episode_number |-> episode_num,
                       parallel_results |-> CHOOSE pr \in parallel_results : TRUE,
                       integrated_results |-> ir,
                       improvements |-> improvements])
                /\ cycle_result' =
                      {[episode_number |-> episode_num, status |-> "success",
                        final_score |-> ir.overall_score,
                        improvements_made |->
                            IF "improvements_made" \in DOMAIN improvements
                            THEN improvements.improvements_made ELSE <<>>]}
                /\ phase_log' = phase_log \o <<Ended("improvement"), Started("persistence"),
                                               Ended("persistence")>>
    /\ UNCHANGED <<jobs, parallel_results, integrated, episode_num, nonCycleVars>>

\* ------------------------------------------------ coordinator: execute
\* The task dicts execute is called with: an improvement of one episode
\* (episode_number 0: none given), a full review of a target list, the
\* analysis type, and a type execute does not know
SeqsUpTo(S, n) == UNION {[1..k -> S] : k \in 0..n}
CoordTasks ==
    {[type |-> "improve_episode", episode_number |-> ep] : ep \in {0, 1}}
        \cup {[type |-> "full_review_cycle", target_episodes |-> tl] :
                 tl \in SeqsUpTo({0, 1, 2}, MaxUnits)}
        \cup {[type |-> "analyze_episode"], [type |-> "unknown"]}

\* A unit's start, its cycle's return and the end of the pause after it
UnitEvent(i, ep, ev) == [unit |-> i, episode |-> ep, ev |-> ev]

\* r.get('final_score', 0) and len(r.get('improvements_made', []))
FinalScore(r) == IF "final_score" \in DOMAIN r THEN r.final_score ELSE <<0, 1>>
ImprovementCount(r) ==
    IF "improvements_made" \in DOMAIN r THEN Len(r.improvements_made) ELSE 0

\* The record coordinate_full_review_cycle returns
ReviewSummary(tl, results) ==
    LET score[n \in 0..Len(results)] ==
            IF n = 0 THEN <<0, 1>> ELSE FracAdd(score[n - 1], FinalScore(results[n]))
        made[n \in 0..Len(results)] ==
            IF n = 0 THEN 0 ELSE made[n - 1] + ImprovementCount(results[n])
    IN  [cycle_results |-> results,
         total_episodes |-> Len(tl),
         average_score |-> FracDiv(score[Len(results)], Len(results)),
         total_improvements |-> made[Len(results)],
         status |-> "completed"]

\* execute(task) up to the call of its first cycle: an unknown type returns
\* an error record; the analysis type calls a method the class does not
\* have (AttributeError); a full review of no unit divides by
\* len(cycle_results) = 0 in its return statement (ZeroDivisionError).
ExecuteCall(task) ==
    /\ exec_pc = "idle"
    /\ cycle_pc = "idle"
    /\ coord_task' = task
    /\ IF task.type = "improve_episode"
       THEN /\ exec_pc' = "improve"
            /\ UNCHANGED <<exec_result, review_log>>
       ELSE IF task.type = "analyze_episode"
       THEN /\ exec_pc' = "raised"
            /\ UNCHANGED <<exec_result, review_log>>
       ELSE IF task.type = "full_review_cycle"
       THEN IF task.target_episodes = <<>>
            THEN /\ exec_pc' = "raised"
                 /\ UNCHANGED <<exec_result, review_log>>
            ELSE /\ exec_pc' = "review"
                 /\ review_log' = <<UnitEvent(1, task.target_episodes[1], "start")>>
                 /\ UNCHANGED exec_result
       ELSE /\ exec_pc' = "returned"
            /\ exec_result' = {[error |-> "unknown_task_type"]}
            /\ UNCHANGED review_log
    /\ UNCHANGED <<cycle_results, cycleVars, tasks, task_queue, workers, running,
                   task_handlers, stats, monitors, stop_pc, hist, last_reg, ret,
                   inflight_at_stop, snap, driverVars>>

\* The episode number the cycle is called with
CurrentEpisode ==
    IF exec_pc = "improve" THEN coord_task.episode_number
    ELSE coord_task.target_episodes[Len(cycle_results) + 1]

\* execute, or the review loop, calls coordinate_episode_improvement
CycleOfExecute(st) ==
    /\ exec_pc \in {"improve", "review"}
    /\ CycleCall(CurrentEpisode, st)

\* Variant: the review run ends at the first unit whose cycle returned an
\* error.
CycleReturn_StopOnError ==
    /\ exec_pc \in {"improve", "review"}
    /\ cycle_pc = "returned"
    /\ LET r == CHOOSE x \in cycle_result : TRUE
       IN  IF exec_pc = "improve"
           THEN /\ exec_pc' = "returned"
                /\ exec_result' = {r}
                /\ UNCHANGED <<cycle_results, review_log, cycleVars>>
           ELSE /\ cycle_results' = Append(cycle_results, r)
                /\ review_log' = Append(review_log,
                      UnitEvent(Len(cycle_results) + 1, episode_num, "return"))
                /\ IF "error" \in DOMAIN r
                   THEN /\ exec_pc' = "returned"
                        /\ exec_result' = {ReviewSummary(coord_task.target_episodes,
                                                         cycle_results')}
                   ELSE /\ exec_pc' = "pause"
                        /\ UNCHANGED exec_result
                /\ cycle_pc' = "idle"
                /\ jobs' = [j \in 1..NJobs |-> [st |-> "none", res |-> {}, out |-> {}]]
                /\ parallel_results' = {}
                /\ integrated' = {}
                /\ cycle_result' = {}
                /\ episode_num' = 0
                /\ phase_log' = <<>>
                /\ UNCHANGED saved
    /\ UNCHANGED <<coord_task, tasks, task_queue, workers, running, task_handlers,
                   stats, monitors, stop_pc, hist, last_reg, ret,
                   inflight_at_stop, snap, driverVars>>

\* coordinate_episode_improvement returns to its caller: execute returns the
\* cycle's result, the review loop appends it to cycle_results and sleeps
CycleReturn ==
    /\ exec_pc \in {"improve", "review"}
    /\ cycle_pc = "returned"
    /\ LET r == CHOOSE x \in cycle_result : TRUE
       IN  IF exec_pc = "improve"
           THEN /\ exec_pc' = "returned"
                /\ exec_result' = {r}
                /\ UNCHANGED <<cycle_results, review_log, cycleVars>>
           ELSE /\ cycle_results' = Append(cycle_results, r)
                /\ review_log' = Append(review_log,
                      UnitEvent(Len(cycle_results) + 1, episode_num, "return"))
                /\ exec_pc' = "pause"
                /\ UNCHANGED exec_result
                /\ cycle_pc' = "idle"
                /\ jobs' = [j \in 1..NJobs |-> [st |-> "none", res |-> {}, out |-> {}]]
                /\ parallel_results' = {}
                /\ integrated' = {}
                /\ cycle_result' = {}
                /\ episode_num' = 0
                /\ phase_log' = <<>>
                /\ UNCHANGED saved
    /\ UNCHANGED <<coord_task, tasks, task_queue, workers, running, task_handlers,
                   stats, monitors, stop_pc, hist, last_reg, ret,
                   inflight_at_stop, snap, driverVars>>

\* asyncio.sleep(60) after a unit returns: the loop goes on to the next
\* unit, or the review run returns its summary
PauseEnd ==
    /\ exec_pc = "pause"
    /\ LET n == Len(cycle_results)
           tl == coord_task.target_episodes
       IN  IF n < Len(tl)
           THEN /\ exec_pc' = "review"
                /\ review_log' = review_log \o
                      <<UnitEvent(n, tl[n], "pause"), UnitEvent(n + 1, tl[n + 1], "start")>>
                /\ UNCHANGED exec_result
           ELSE /\ exec_pc' = "returned"
                /\ review_log' = Append(review_log, UnitEvent(n, tl[n], "pause"))
                /\ exec_result' = {ReviewSummary(tl, cycle_results)}
    /\ UNCHANGED <<coord_task, cycle_results, cycleVars, tasks, task_queue, workers,
                   running, task_handlers, stats, monitors, stop_pc, hist, last_reg,
                   ret, inflight_at_stop, snap, driverVars>>

\* ------------------------------------------------------------------- Next
\* The engine alone: its whole life cycle, with one handler per type, which
\* the application registers at any time
Next ==
    \/ \E ty \in Types : RegisterHandler(ty, "h1")
    \/ \E ty \in Types, k \in {0, MaxRetries} : AddTask(ty, k, NORMAL)
    \/ Start
    \/ MonitorStep
    \/ StopBegin
    \/ StopReturn
    \/ \E w \in WorkerSet : WorkerBegin(w)
    \/ \E w \in WorkerSet : WorkerTimeout(w)
    \/ \E w \in WorkerSet : WorkerDequeue(w)
    \/ \E w \in WorkerSet : HandlerReturn(w)
    \/ \E w \in WorkerSet : HandlerRaise(w)
    \/ \E w \in WorkerSet : BackoffDone(w)

Spec == Init /\ [][Next]_vars

\* The engine kept running while the application registers handlers and
\* replaces them
NextRegister ==
    \/ \E ty \in Types, h \in Handlers : RegisterHandler(ty, h)
    \/ \E ty \in Types, k \in 0..MaxRetries : AddTask(ty, k, NORMAL)
    \/ Start
    \/ MonitorStep
    \/ \E w \in WorkerSet : WorkerBegin(w)
    \/ \E w \in WorkerSet : WorkerTimeout(w)
    \/ \E w \in WorkerSet : WorkerDequeue(w)
    \/ \E w \in WorkerSet : HandlerReturn(w)
    \/ \E w \in WorkerSet : HandlerRaise(w)
    \/ \E w \in WorkerSet : BackoffDone(w)

SpecRegister == Init /\ [][NextRegister]_vars

\* The engine behind main.py's endpoints
NextApp ==
    \/ Next
    \/ Pause
    \/ Resume

SpecApp == Init /\ [][NextApp]_vars

\* The module's own engine instance with its default handlers registered
\* (engine = WorkflowEngine(); engine.register_handler(...)), started and
\* never stopped, with handlers that raise on every invocation.
InitExhaust ==
    /\ tasks = <<>>
    /\ task_queue = <<>>
    /\ workers = EmptyBag
    /\ running = FALSE
    /\ task_handlers = [ty \in Types |-> "h1"]
    /\ stats = [total_tasks |-> 0, completed_tasks |-> 0,
                failed_tasks |-> 0, retry_tasks |-> 0]
    /\ monitors = 0
    /\ stop_pc = "idle"
    /\ snap = [id |-> 0, value |-> {}, seen |-> {}]
    /\ CycleInit
    /\ ExecInit
    /\ DriverInit
    /\ hist = <<>>
    /\ last_reg = [ty \in Types |-> "h1"]
    /\ ret = 0
    /\ inflight_at_stop = 0

NextExhaust ==
    \/ \E ty \in Types, h \in Handlers : RegisterHandler(ty, h)
    \/ \E ty \in Types, k \in 0..MaxRetries : AddTask(ty, k, NORMAL)
    \/ Start
    \/ MonitorStep
    \/ \E w \in WorkerSet : WorkerBegin(w)
    \/ \E w \in WorkerSet : WorkerTimeout(w)
    \/ \E w \in WorkerSet : WorkerDequeue(w)
    \/ \E w \in WorkerSet : HandlerRaise(w)
    \/ \E w \in WorkerSet : BackoffDone(w)

\* The event loop runs every ready coroutine: a created worker is scheduled,
\* a worker waiting on a non-empty queue gets a task, every handler
\* invocation ends and every backoff sleep elapses.
FairExhaust ==
    /\ WF_vars(\E w \in WorkerSet : WorkerBegin(w))
    /\ WF_vars(\E w \in WorkerSet : WorkerDequeue(w))
    /\ \A i \in 1..MaxTasks :
          /\ WF_vars(\E w \in WorkerSet : w.task = i /\ HandlerRaise(w))
          /\ WF_vars(\E w \in WorkerSet : w.task = i /\ BackoffDone(w))

SpecExhaust == InitExhaust /\ [][NextExhaust]_vars /\ FairExhaust

\* The module's own engine instance behind main.py's pause and resume
\* endpoints, started at startup and not shut down
NextPause ==
    \/ \E ty \in Types, k \in 0..MaxRetries : AddTask(ty, k, NORMAL)
    \/ Start
    \/ MonitorStep
    \/ Pause
    \/ Resume
    \/ \E w \in WorkerSet : WorkerBegin(w)
    \/ \E w \in WorkerSet : WorkerTimeout(w)
    \/ \E w \in WorkerSet : WorkerDequeue(w)
    \/ \E w \in WorkerSet : HandlerReturn(w)
    \/ \E w \in WorkerSet : HandlerRaise(w)
    \/ \E w \in WorkerSet : BackoffDone(w)

SpecPause == InitExhaust /\ [][NextPause]_vars

\* The module's own engine instance kept running, with tasks of differing
\* priority submitted to it
NextQueue ==
    \/ \E ty \in Types, k \in 0..MaxRetries, p \in {LOW, CRITICAL} : AddTask(ty, k, p)
    \/ Start
    \/ MonitorStep
    \/ \E w \in WorkerSet : WorkerBegin(w)
    \/ \E w \in WorkerSet : WorkerTimeout(w)
    \/ \E w \in WorkerSet : WorkerDequeue(w)
    \/ \E w \in WorkerSet : HandlerReturn(w)
    \/ \E w \in WorkerSet : HandlerRaise(w)
    \/ \E w \in WorkerSet : BackoffDone(w)

SpecQueue == InitExhaust /\ [][NextQueue]_vars

\* The module's own engine instance kept running, with tasks whose retry
\* budget reaches more than one retry
NextBackoff ==
    \/ \E ty \in Types, k \in 0..(MaxRetries + 1) : AddTask(ty, k, NORMAL)
    \/ Start
    \/ MonitorStep
    \/ \E w \in WorkerSet : WorkerBegin(w)
    \/ \E w \in WorkerSet : WorkerTimeout(w)
    \/ \E w \in WorkerSet : WorkerDequeue(w)
    \/ \E w \in WorkerSet : HandlerReturn(w)
    \/ \E w \in WorkerSet : HandlerRaise(w)
    \/ \E w \in WorkerSet : BackoffDone(w)

SpecBackoff == InitExhaust /\ [][NextBackoff]_vars

\* The module's own engine instance kept running while a client polls the
\* status of tasks, submitted or not
NextQuery ==
    \/ \E ty \in Types, k \in 0..MaxRetries : AddTask(ty, k, NORMAL)
    \/ \E id \in 1..(MaxTasks + 1) : GetTaskStatus(id)
    \/ Start
    \/ MonitorStep
    \/ \E w \in WorkerSet : WorkerBegin(w)
    \/ \E w \in WorkerSet : WorkerTimeout(w)
    \/ \E w \in WorkerSet : WorkerDequeue(w)
    \/ \E w \in WorkerSet : HandlerReturn(w)
    \/ \E w \in WorkerSet : HandlerRaise(w)
    \/ \E w \in WorkerSet : BackoffDone(w)

SpecQuery == InitExhaust /\ [][NextQuery]_vars

\* One improvement cycle: the jobs of its batch end in any order, each with
\* a score or with an exception
NextCycle ==
    \/ \E ep \in {0, 1}, st \in {"status", "raise"} : CycleCall(ep, st)
    \/ \E j \in 1..NJobs :
          \E o \in {Raised("agent_error"),
                    Returned(IF Agent(j) \in DOMAIN ScoreKey
                             THEN ScoreDict(Agent(j), 70) ELSE PlainDict)} :
              JobEnd(j, o)
    \/ GatherReturn
    \/ \E o \in {Returned(ImproverDict), Raised("agent_error")},
          sv \in {"written", "raise"} : ImprovementEnd(o, sv)

SpecCycle == Init /\ [][NextCycle]_vars

\* One improvement cycle up to its integration, over the whole range of job
\* results (the order in which the jobs end is left to SpecCycle: here they
\* end in roster order)
NextScores ==
    \/ CycleCall(1, "status")
    \/ \E j \in 1..NJobs :
          /\ \A i \in 1..(j - 1) : jobs[i].st = "done"
          /\ \E o \in Outcomes(Agent(j)) : JobEnd(j, o)
    \/ GatherReturn

SpecScores == Init /\ [][NextScores]_vars

\* execute(task) for every task; in a cycle the jobs end in roster order,
\* the first with a score or an exception, the others with their dict
NextReview ==
    \/ \E task \in CoordTasks : ExecuteCall(task)
    \/ \E st \in {"status", "raise"} : CycleOfExecute(st)
    \/ \E j \in 1..NJobs :
          /\ \A i \in 1..(j - 1) : jobs[i].st = "done"
          /\ \E o \in (IF j = 1 THEN {Raised("agent_error")} ELSE {})
                      \cup {Returned(IF Agent(j) \in DOMAIN ScoreKey
                                     THEN ScoreDict(Agent(j), 80) ELSE PlainDict)} :
                JobEnd(j, o)
    \/ GatherReturn
    \/ \E o \in {Returned(ImproverDict), Raised("agent_error")},
          sv \in {"written", "raise"} : ImprovementEnd(o, sv)
    \/ CycleReturn
    \/ PauseEnd

SpecReview == Init /\ [][NextReview]_vars

\* The improvement driver: initialized, run, and stopped at any moment
NextDriver ==
    \/ \E init \in [Units -> DriverScores] : Initialize(init)
    \/ Run
    \/ DriverStop
    \/ \E o \in ReviewOutcomes : ImproveSingleEpisode(o)
    \/ \E rp \in {"ok", "raise"} : CycleEnd(rp)
    \/ \E rv \in {"ok", "raise"} : Finalize(rv)
    \/ \E dt \in {0, 1} : SleepEnd(dt)

SpecDriver == Init /\ [][NextDriver]_vars

\* The improvement driver run again and again, each run stopped in its first
\* iteration
NextRestart ==
    \/ \E init \in [Units -> DriverScores] : Initialize(init)
    \/ Run
    \/ DriverStop
    \/ \E o \in ReviewOutcomes : ImproveSingleEpisode(o)
    \/ \E rp \in {"ok", "raise"} : CycleEnd(rp)
    \/ \E rv \in {"ok", "raise"} : Finalize(rv)
    \/ Restart

SpecRestart == Init /\ [][NextRestart]_vars

\* The cycle manager, for every max_cycles main() may be given
NextBudget ==
    \/ \E mc \in 0..MaxCycles : Configure(mc)
    \/ \E scores \in [{BudgetEpisodes[i] : i \in 1..Len(BudgetEpisodes)} -> BudgetScores] :
          run_single_cycle(scores)

SpecBudget == Init /\ [][NextBudget]_vars

\* ================================================================ claims
Terminal == {SUCCESS, FAILED}
\* A worker loop holds task i while it runs the handler or waits out the backoff
Held(i) == Holders(i) # {}
\* stop() has returned: no stop() call is pending and the list it cleared is
\* empty (also the state before the first start())
StopReturned == stop_pc = "idle" /\ workers = EmptyBag

\* ---- C1
\* C1 as stated: once a task with max_retries = k has failed exactly k times
\* (the k-th failure just resolved), its status is failed, not retry, and
\* retry_count = k.
C1_FailedAfterK ==
    \A i \in TaskIds :
        (hist[i].failed = tasks[i].max_retries /\ tasks[i].status \in {RETRY, FAILED})
            => (tasks[i].status = FAILED /\ tasks[i].retry_count = tasks[i].max_retries)

\* C1 amended: a task with max_retries = k is failed exactly when it has
\* failed k + 1 times (the first attempt and k retries), and then
\* retry_count = k; after k or fewer failures it is not failed (a failure
\* leaves it in retry) and retry_count counts the failures.
C1_FailedAfterKPlusOne ==
    \A i \in TaskIds :
        LET t == tasks[i]
            k == t.max_retries
            f == hist[i].failed
        IN  /\ f <= k + 1
            /\ f = k + 1 => (t.status = FAILED /\ t.retry_count = k)
            /\ f <= k => (t.status # FAILED /\ t.retry_count = f)

\* A task with a retry budget has used it up and is failed
C1_Witness ==
    \E i \in TaskIds :
        /\ tasks[i].max_retries >= 1
        /\ hist[i].failed = tasks[i].max_retries + 1
        /\ tasks[i].status = FAILED

\* ---- C2
\* C2: a task with status success has result set and error unset; a task
\* with status failed has error set and result unset.
C2_ExactlyOneOfResultError ==
    \A i \in TaskIds :
        /\ tasks[i].status = SUCCESS => (tasks[i].result # None /\ tasks[i].error = None)
        /\ tasks[i].status = FAILED => (tasks[i].error # None /\ tasks[i].result = None)

\* ---- C3
\* C3: no task is held (handler running, or backoff being waited out) by two
\* worker loops at once.
C3_AtMostOneInFlight == \A i \in TaskIds : HolderCount(i) <= 1

\* Two worker loops are busy at once, one of them waiting out a backoff
C3_Witness ==
    \E w1, w2 \in WorkerSet :
        /\ w1.pc = "sleep"
        /\ w2.pc = "handler"
        /\ w1.task # w2.task
        /\ tasks[w2.task].retry_count >= 1

\* ---- C4
\* C4 as stated: when stop() has returned, the task that was in flight when
\* it was called has status success or failed.
C4_InFlightTerminalAtReturn ==
    (StopReturned /\ inflight_at_stop # 0)
        => tasks[inflight_at_stop].status \in Terminal

\* C4 amended: when stop() has returned, every attempt that was in flight has
\* been resolved: no task is running or held by a worker, a task that was in
\* flight is success, failed, or retry and back in the queue.
C4_InFlightResolvedAtReturn ==
    StopReturned =>
        /\ \A i \in TaskIds :
              /\ tasks[i].status # RUNNING
              /\ ~Held(i)
              /\ tasks[i].status \in {PENDING, RETRY} => InQueue(i)
        /\ inflight_at_stop # 0 =>
              /\ tasks[inflight_at_stop].status = RETRY
              /\ InQueue(inflight_at_stop)

\* stop() has returned and the task that was in flight is left in retry
C4_Witness ==
    /\ StopReturned
    /\ inflight_at_stop # 0
    /\ tasks[inflight_at_stop].status = RETRY

\* ---- C5
\* C5: while a stop() call has cleared the running flag and the flag is still
\* false, no task is taken off the queue.
C5_NoDequeueAfterStop ==
    [][Len(task_queue') < Len(task_queue) => ~(stop_pc = "gather" /\ ~running)]_vars

\* ---- C6
\* Task i has used up its retries: failed, retry_count = max_retries, error
\* the message of the last exception, the handler invoked max_retries + 1
\* times, and the task neither queued nor held.
Exhausted(i) ==
    /\ i \in TaskIds
    /\ tasks[i].status = FAILED
    /\ tasks[i].retry_count = tasks[i].max_retries
    /\ tasks[i].error = hist[i].last_exc
    /\ tasks[i].error = MessageOf(None, tasks[i].max_retries + 1)
    /\ hist[i].invoked = tasks[i].max_retries + 1
    /\ ~InQueue(i)
    /\ ~Held(i)

\* C6: with the engine running and handlers that always raise, every
\* submitted task eventually is exhausted and stays so: it is never attempted
\* again.
C6_ExhaustedRetries ==
    \A i \in 1..MaxTasks : []((i \in TaskIds /\ running) => <>[]Exhausted(i))

\* A task with a retry budget is exhausted
C6_Witness == \E i \in TaskIds : tasks[i].max_retries >= 1 /\ Exhausted(i)

\* ---- C7
\* C7: retry_count never exceeds max_retries.
C7_RetryCountBounded ==
    \A i \in TaskIds : tasks[i].retry_count <= tasks[i].max_retries

\* A task is being attempted with its whole retry budget used
C7_Witness ==
    \E i \in TaskIds :
        /\ tasks[i].max_retries >= 1
        /\ tasks[i].retry_count = tasks[i].max_retries
        /\ tasks[i].status = RUNNING

\* ---- C8
\* C8: add_task can be called whether or not the type has a handler; the
\* call that returns id adds the submitted task, unchanged and pending, under
\* id, appends id to the back of the queue, adds 1 to total_tasks and leaves
\* every other task, counter and engine field as it was.
C8_AddTaskFrame ==
    [][ /\ Len(tasks) < MaxTasks =>
              \A ty \in Types, k \in 0..MaxRetries : ENABLED AddTask(ty, k, NORMAL)
        /\ ret' # ret =>
              /\ ret' = Len(tasks) + 1
              /\ Len(tasks') = ret'
              /\ tasks'[ret'] = NewTask(ret', tasks'[ret'].type, tasks'[ret'].max_retries,
                                            tasks'[ret'].priority)
              /\ \A j \in TaskIds : tasks'[j] = tasks[j]
              /\ task_queue' = Append(task_queue, ret')
              /\ stats' = [stats EXCEPT !.total_tasks = @ + 1]
              /\ UNCHANGED <<workers, running, task_handlers>>
      ]_vars

\* A second task was just submitted for a type without a handler and waits
\* at the back of the queue behind the first
C8_Witness ==
    /\ ret = 2
    /\ Len(tasks) = 2
    /\ task_handlers[tasks[2].type] = None
    /\ tasks[2].status = PENDING
    /\ task_queue = <<1, 2>>

\* ---- C9
SumRetryCount ==
    LET f[n \in 0..Len(tasks)] == IF n = 0 THEN 0 ELSE tasks[n].retry_count + f[n - 1]
    IN  f[Len(tasks)]


\* C9: a task all of whose attempts found no handler carries the no-handler
\* message, has retry_count equal to its failures up to max_retries, and is
\* failed exactly when it has failed max_retries + 1 times; the retry counter
\* counts every retry.
C9_NoHandlerRetryAccounting ==
    /\ stats.retry_tasks = SumRetryCount
    /\ \A i \in TaskIds :
          (hist[i].invoked = 0 /\ hist[i].failed >= 1) =>
              /\ tasks[i].error = NoHandlerMessage(tasks[i].type)
              /\ tasks[i].retry_count = Min(hist[i].failed, tasks[i].max_retries)
              /\ tasks[i].status = FAILED <=> hist[i].failed = tasks[i].max_retries + 1
              /\ tasks[i].status # FAILED => tasks[i].status = RETRY

\* A task with a retry budget ended failed without ever finding a handler
C9_Witness ==
    \E i \in TaskIds :
        /\ hist[i].invoked = 0
        /\ tasks[i].max_retries >= 1
        /\ tasks[i].status = FAILED
        /\ tasks[i].error = NoHandlerMessage(tasks[i].type)

\* ---- C10
\* C10: the handler a worker is running for a task is the one most recently
\* registered for the task's type when the attempt began.
C10_LatestHandlerInvoked ==
    \A w \in WorkerSet :
        w.pc = "handler" => (w.handler \in Handlers /\ w.handler = w.reg)

\* A handler registered after an attempt failed for lack of a handler is
\* running the next attempt
C10_Witness ==
    \E w \in WorkerSet :
        /\ w.pc = "handler"
        /\ w.handler = "h2"
        /\ tasks[w.task].error = NoHandlerMessage(tasks[w.task].type)

\* ---- C11
\* C11: the queue hands tasks out in the order their enqueues completed,
\* whatever their priorities: every enqueue (add_task, or the put that ends
\* a backoff) appends to the back, and every dequeue takes the task at the
\* front, which a worker then runs, and leaves the order of the rest as it was.
C11_FifoDequeue ==
    [][ /\ Len(task_queue') > Len(task_queue) =>
              \E i \in 1..Len(tasks') : task_queue' = Append(task_queue, i)
        /\ Len(task_queue') < Len(task_queue) =>
              /\ task_queue' = Tail(task_queue)
              /\ tasks[Head(task_queue)].status \in {PENDING, RETRY}
              /\ tasks'[Head(task_queue)].status = RUNNING
              /\ \E w \in BagToSet(workers') :
                    w.pc = "handler" /\ w.task = Head(task_queue)
      ]_vars

\* A critical task, retried and so enqueued after a low-priority one, waits
\* behind it while a worker is about to take the next task
C11_Witness ==
    /\ task_queue = <<2, 1>>
    /\ tasks[1].priority = CRITICAL
    /\ tasks[1].retry_count = 1
    /\ tasks[2].priority = LOW
    /\ \E w \in WorkerSet : w.pc = "get"

\* ---- C12
\* C12: a start() call on a running engine changes nothing: while the engine
\* runs no step creates a worker loop or a monitor loop, and however often
\* start() is called on an engine that is not stopped, it has exactly
\* worker_count worker loops and one monitor loop.
C12_StartIdempotent ==
    /\ [](IF running
          THEN BagCardinality(workers) = WorkerCount /\ monitors = 1
          ELSE workers = EmptyBag /\ monitors = 0)
    /\ [][ running =>
              /\ BagCardinality(workers') = BagCardinality(workers)
              /\ monitors' = monitors
              /\ Start => UNCHANGED vars
         ]_vars

\* start() can be called on an engine that is running a handler
C12_Witness ==
    /\ running
    /\ ENABLED Start
    /\ \E w \in WorkerSet : w.pc = "handler"

\* ---- C13
\* C13: no handler invocation is cut short, by stop() or otherwise: a task
\* is running exactly while one worker loop awaits its handler; every
\* invocation has ended in success or in the except branch, or is still
\* awaited; a task left in retry outside the queue is held by the worker
\* that waits out its backoff and will re-enqueue it; and when stop() has
\* returned no task is running.
C13_StopNeverInterrupts ==
    /\ \A i \in TaskIds :
          LET awaiting == {w \in WorkerSet : w.pc = "handler" /\ w.task = i}
              ended == IF tasks[i].status = SUCCESS THEN 1 ELSE 0
              going == IF tasks[i].status = RUNNING THEN 1 ELSE 0
          IN  /\ tasks[i].status = RUNNING <=> awaiting # {}
              /\ \A w \in awaiting : CopiesIn(w, workers) = 1 /\ awaiting = {w}
              /\ hist[i].invoked <= hist[i].failed + ended + going
              /\ (tasks[i].status = RETRY /\ ~InQueue(i)) =>
                    \E w \in WorkerSet : w.pc = "sleep" /\ w.task = i
    /\ StopReturned => \A i \in TaskIds : tasks[i].status # RUNNING

\* stop() is waiting; the attempt that was in flight when it was called has
\* since raised, and its worker waits out the backoff before it re-enqueues
C13_Witness ==
    /\ stop_pc = "gather"
    /\ ~running
    /\ inflight_at_stop # 0
    /\ \E w \in WorkerSet : w.pc = "sleep" /\ w.task = inflight_at_stop

\* ---- C14
\* self.tasks.get(id), as an Optional
Stored(id) == IF id \in TaskIds THEN {tasks[id]} ELSE {}

\* C14: a get_task_status call changes no field of the engine and no task;
\* it returns None for an id that was never submitted and the task's fields
\* otherwise; and a call that finds the task as the previous call for the
\* same id left it returns what that call returned.
C14_StatusReadIsPure ==
    [][ snap' # snap =>
          /\ UNCHANGED <<tasks, task_queue, workers, running, task_handlers,
                         stats, monitors, stop_pc>>
          /\ snap'.id \notin TaskIds => snap'.value = {}
          /\ snap'.id \in TaskIds =>
                \E d \in snap'.value :
                    /\ snap'.value = {d}
                    /\ \A f \in {"id", "type", "payload", "status", "priority",
                                  "retry_count", "max_retries", "result", "error"} :
                          d[f] = tasks[snap'.id][f]
          /\ (snap'.id = snap.id /\ snap.seen = Stored(snap.id)) =>
                snap'.value = snap.value
      ]_vars

\* A retried task was polled and has not changed since
C14_Witness ==
    /\ snap.id \in TaskIds
    /\ snap.seen = Stored(snap.id)
    /\ \E d \in snap.value : d.status = RETRY /\ d.error # None

\* ---- C15
\* C15: the step in which the handler of a task that has never failed
\* returns sets the task's status to success and its result to the value
\* returned, leaves retry_count at 0, and adds exactly 1 to the completed
\* counter and nothing to the failed and retry counters; a task that is
\* success is not changed again.
C15_FirstAttemptSuccess ==
    [][ \A i \in TaskIds :
          /\ (hist[i].failed = 0 /\ tasks[i].status = RUNNING
                  /\ tasks'[i].status # RUNNING /\ hist'[i].failed = 0) =>
                /\ tasks'[i].status = SUCCESS
                /\ \E w \in WorkerSet :
                      /\ w.pc = "handler" /\ w.task = i
                      /\ tasks'[i].result = ReturnOf(w.handler, tasks[i].payload)
                /\ tasks'[i].retry_count = 0
                /\ tasks'[i].error = None
                /\ stats' = [stats EXCEPT !.completed_tasks = @ + 1]
          /\ tasks[i].status = SUCCESS => tasks'[i] = tasks[i]
      ]_vars

\* The only task so far, submitted with a retry budget, succeeded at once
C15_Witness ==
    /\ Len(tasks) = 1
    /\ tasks[1].status = SUCCESS
    /\ tasks[1].max_retries >= 1
    /\ hist[1].invoked = 1
    /\ hist[1].failed = 0
    /\ stats.completed_tasks = 1
    /\ stats.failed_tasks = 0
    /\ stats.retry_tasks = 0

\* ------------------------------------------------ the batch, as the agents
\* left it: what each job's agent did, read from the jobs and not from the
\* coordinator's own results
Out(j) == CHOOSE o \in jobs[j].out : TRUE
JobRaised(j) == jobs[j].out # {} /\ Out(j).kind = "raise"
GaveScore(j) ==
    /\ jobs[j].out # {}
    /\ Out(j).kind = "return"
    /\ Agent(j) \in DOMAIN ScoreKey
    /\ ScoreKey[Agent(j)] \in DOMAIN Out(j).val
JobScore(j) == Out(j).val[ScoreKey[Agent(j)]]
RubricGiven == {j \in 1..Len(Rubrics) : GaveScore(j)}
ReaderGiven == {j \in ReaderJobs : GaveScore(j)}
SumScores(S) ==
    LET f[n \in 0..NJobs] ==
            IF n = 0 THEN 0
            ELSE f[n - 1] + (IF n \in S THEN JobScore(n) ELSE 0)
    IN  f[NJobs]
\* The areas that were collected: one per rubric that gave a score, and one
\* for the readers together if any gave a score
AreaCount == Cardinality(RubricGiven) + (IF ReaderGiven = {} THEN 0 ELSE 1)
\* overall is the mean of the collected areas' scores, the readers' area
\* being the mean of the readers' scores: with R the rubric scores' sum, S
\* the reader scores' sum and P their number,
\*   overall = (R + S / P) / AreaCount
IsMeanOfAreas(overall) ==
    LET R == SumScores(RubricGiven)
        S == SumScores(ReaderGiven)
        P == Cardinality(ReaderGiven)
    IN  IF AreaCount = 0 THEN FracEq(overall, <<DefaultScore, 1>>)
        ELSE IF P = 0 THEN overall[1] * AreaCount = overall[2] * R
        ELSE overall[1] * (P * AreaCount) = overall[2] * (R * P + S)
\* The collected areas with their scores
CollectedAreas ==
    {[area |-> Area[Rubrics[j]], score |-> <<JobScore(j), 1>>] : j \in RubricGiven}
        \cup (IF ReaderGiven = {} THEN {}
              ELSE {[area |-> "reader_average",
                     score |-> <<SumScores(ReaderGiven), Cardinality(ReaderGiven)>>]})
TheIntegrated == CHOOSE r \in integrated : TRUE
TheBatchResult == CHOOSE pr \in parallel_results : TRUE

\* C16: partial-failure isolation.  When a job of the parallel-analysis
\* batch raises, the batch is neither aborted nor blocked: the job counts
\* as ended and the call stays in the batch until all jobs have ended; then
\* the batch result holds an error entry in the slot of each job that raised
\* and, unchanged, what every other job returned, and the overall score is
\* the mean of exactly the areas the other jobs gave a score for.
C16_PartialFailureIsolation ==
    /\ \A j \in 1..NJobs : JobRaised(j) => jobs[j].st = "done"
    /\ (\E j \in 1..NJobs : jobs[j].st = "running") => cycle_pc = "gather"
    /\ (\E j \in 1..NJobs : JobRaised(j)) /\ cycle_pc \in {"improver", "returned"}
            => /\ parallel_results # {}
               /\ integrated # {}
               /\ \A j \in 1..NJobs :
                     IF JobRaised(j)
                     THEN /\ TheBatchResult[j] = ErrorDict(Out(j).val.message)
                          /\ DOMAIN TheBatchResult[j] = {"error"}
                     ELSE TheBatchResult[j] = Out(j).val
               /\ IsMeanOfAreas(TheIntegrated.overall_score)

\* One rubric job raised, every other job returned, and the cycle went on
C16_Witness ==
    /\ cycle_pc = "improver"
    /\ JobRaised(2)
    /\ \A j \in 1..NJobs : j # 2 => ~JobRaised(j)
    /\ Cardinality(RubricGiven) = Len(Rubrics) - 1
    /\ Cardinality(ReaderGiven) = PersonaCount
    /\ integrated # {}

\* C17: barrier.  The integration phase has not begun as long as a job of
\* the batch has not ended; when it begins, every job has ended (returned or
\* raised) and the batch result holds every job's result, whatever the order
\* in which the jobs ended.
C17_Barrier ==
    (integrated # {} \/ \E i \in 1..Len(phase_log) : phase_log[i] = Started("integration"))
        => /\ \A j \in 1..NJobs : jobs[j].st = "done"
           /\ parallel_results = {Slots}
           /\ \A j \in 1..NJobs : TheBatchResult[j] \in jobs[j].res

\* The integration has begun after a batch in which a job raised and a job
\* returned
C17_Witness ==
    /\ \E i \in 1..Len(phase_log) : phase_log[i] = Started("integration")
    /\ integrated # {}
    /\ \E j \in 1..NJobs : JobRaised(j)
    /\ \E j \in 1..NJobs : jobs[j].st = "done" /\ ~JobRaised(j)

\* The phases of a cycle, in order
Phases == <<"analysis", "parallel", "integration", "improvement", "persistence">>
PhaseOrder ==
    [i \in 1..(2 * Len(Phases)) |->
        IF i % 2 = 1 THEN Started(Phases[(i + 1) \div 2]) ELSE Ended(Phases[i \div 2])]

\* C18: the phases of a cycle run in the order analysis, parallel analysis,
\* integration, improvement, persistence: what has started and ended so far
\* is an initial part of that order, so each phase starts after the previous
\* one has ended, and none starts twice or again after a later one.
C18_PhaseOrder ==
    /\ Len(phase_log) <= Len(PhaseOrder)
    /\ \A i \in 1..Len(phase_log) : phase_log[i] = PhaseOrder[i]

\* A cycle has run through all five phases
C18_Witness ==
    /\ cycle_pc = "returned"
    /\ phase_log = PhaseOrder
    /\ Len(saved) = 1
    /\ \E r \in cycle_result : r.status = "success"

\* C19: the overall score of the integration is the arithmetic mean of the
\* collected areas' scores, each rubric that gave a score being one area and
\* the readers that gave a score being together one area, their average.
C19_OverallIsMean ==
    integrated # {} => IsMeanOfAreas(TheIntegrated.overall_score)

\* An integration over a batch where a rubric gave no score, the others
\* differ, and the readers' average is not one of their scores
C19_Witness ==
    /\ integrated # {}
    /\ Cardinality(RubricGiven) = Len(Rubrics) - 1
    /\ \E i, j \in RubricGiven : JobScore(i) # JobScore(j)
    /\ \E i, j \in ReaderGiven : JobScore(i) < JobScore(j)
    /\ TheIntegrated.overall_score[1] % TheIntegrated.overall_score[2] # 0

\* C20: the priority-fix list holds exactly the collected areas that score
\* below 8.0, each once, with the area's score; an entry is tagged high when
\* the score is below 7.0 and medium otherwise.
C20_PriorityFixes ==
    integrated # {} =>
        LET fixes == TheIntegrated.priority_fixes
        IN  /\ \A a \in CollectedAreas :
                  FracLess(a.score, <<FixThreshold, 1>>)
                      <=> \E k \in 1..Len(fixes) : fixes[k].area = a.area
            /\ \A k \in 1..Len(fixes) :
                  \E a \in CollectedAreas :
                      /\ fixes[k].area = a.area
                      /\ FracEq(fixes[k].score, a.score)
                      /\ FracLess(a.score, <<FixThreshold, 1>>)
                      /\ fixes[k].priority =
                            IF FracLess(a.score, <<HighThreshold, 1>>)
                            THEN "high" ELSE "medium"
            /\ \A k1, k2 \in 1..Len(fixes) :
                  fixes[k1].area = fixes[k2].area => k1 = k2

\* An integration with an area at 8.0, an area at 7.0 and an area below
C20_Witness ==
    /\ integrated # {}
    /\ \E a \in CollectedAreas : FracEq(a.score, <<FixThreshold, 1>>)
    /\ \E k \in 1..Len(TheIntegrated.priority_fixes) :
          /\ TheIntegrated.priority_fixes[k].priority = "medium"
          /\ FracEq(TheIntegrated.priority_fixes[k].score, <<HighThreshold, 1>>)
    /\ \E k \in 1..Len(TheIntegrated.priority_fixes) :
          TheIntegrated.priority_fixes[k].priority = "high"

\* C21: the priority-fix list is ordered lowest score first: of two entries,
\* the one with the lower score comes before the other.
C21_LowestFirst ==
    integrated # {} =>
        LET fixes == TheIntegrated.priority_fixes
        IN  \A k1, k2 \in 1..Len(fixes) :
                FracLess(fixes[k1].score, fixes[k2].score) => k1 < k2

\* C22: execute(task) never lets an exception out: for every task it
\* returns a record.
C22_ExecuteNeverRaises == exec_pc # "raised"

\* What a full review run of the target list tl logs when it runs to its end
ExpectedReviewLog(tl) ==
    [i \in 1..(3 * Len(tl)) |->
        UnitEvent((i + 2) \div 3, tl[(i + 2) \div 3],
                  IF i % 3 = 1 THEN "start" ELSE IF i % 3 = 2 THEN "return" ELSE "pause")]

\* C23: a full review run takes the units one at a time, in the order of the
\* target list, each once: a unit's cycle starts after the cycle of the unit
\* before it has returned and the pause after it has ended; the cycle that
\* runs is the current unit's; and the run returns only after every unit's
\* cycle has returned, whether with an error or not.
C23_UnitsInOrder ==
    coord_task.type = "full_review_cycle" =>
        LET tl == coord_task.target_episodes
        IN  /\ Len(review_log) <= 3 * Len(tl)
            /\ \A i \in 1..Len(review_log) : review_log[i] = ExpectedReviewLog(tl)[i]
            /\ cycle_pc # "idle" =>
                  /\ exec_pc = "review"
                  /\ Len(cycle_results) < Len(tl)
                  /\ episode_num \in {0, tl[Len(cycle_results) + 1]}
            /\ exec_pc = "returned" =>
                  /\ Len(cycle_results) = Len(tl)
                  /\ review_log = ExpectedReviewLog(tl)
                  /\ \E r \in exec_result : r.cycle_results = cycle_results

\* A full review run of two different units has returned; the first unit's
\* cycle returned an error, the second's did not
C23_Witness ==
    /\ coord_task.type = "full_review_cycle"
    /\ exec_pc = "returned"
    /\ Len(cycle_results) = MaxUnits
    /\ coord_task.target_episodes[1] # coord_task.target_episodes[2]
    /\ "error" \in DOMAIN cycle_results[1]
    /\ "error" \notin DOMAIN cycle_results[2]

\* C24: the best score recorded for each unit is the highest score the
\* driver has observed for it, in the initial evaluation and in every
\* review since, scores at or above the target included.
C24_BestIsMaxObserved ==
    iis.pc # "new" =>
        \A u \in Units : Get(iis.best_scores, IntKey(u), 0) = iis_env.highest[u]

\* C25: for a unit that has met its target score, an iteration whose number
\* is not a multiple of 10 makes no review call and no improvement call.
C25_SparseCheck ==
    LET c == iis_env.last
    IN  (c.met_before /\ c.score >= TargetScore /\ c.iteration % SparseEvery # 0)
            => (~c.reviewed /\ c.action = "none")

\* C26: when the driver processes a unit whose score is below the target and
\* has not improved for more than 2 hours (a unit whose score never improved
\* since the driver started included), it runs the intensive improvement.
C26_Escalation ==
    LET c == iis_env.last
    IN  (c.reviewed /\ c.score > 0 /\ c.score < TargetScore /\ c.stale /\ ~c.improved)
            => c.action = "intensive"

\* C27: an exception raised inside an outer iteration does not end the outer
\* loop: the loop has ended only if the running flag is false.
C27_LoopSurvives == iis.pc = "ended" => ~iis.running

\* Every unit's last final score is at or above the target
AllReached ==
    \E ls \in gcm.last_scores : \A ep \in DOMAIN ls : ls[ep] >= BudgetTarget

Queued == {task_queue[k] : k \in 1..Len(task_queue)}

\* C29: the delay before a failed task's n-th retry attempt is 2^n, so the
\* first delay is 2 and the delays grow strictly with n; while a worker
\* waits out the delay the task is not in the queue, and a task waiting for
\* its retry is either being waited for or, the delay over, in the queue.
C29_BackoffGrowth ==
    /\ \A n \in 1..MaxRetries : Backoff(n) < Backoff(n + 1)
    /\ \A w \in WorkerSet :
          w.pc = "sleep" =>
              /\ tasks[w.task].status = RETRY
              /\ tasks[w.task].retry_count \in 1..tasks[w.task].max_retries
              /\ tasks[w.task].retry_count = hist[w.task].failed
              /\ w.delay = 2 ^ hist[w.task].failed
              /\ w.task \notin Queued
    /\ \A i \in TaskIds :
          tasks[i].status = RETRY =>
              (i \in Queued) # (\E w \in WorkerSet : w.pc = "sleep" /\ w.task = i)

\* A worker waits out the delay before a task's second retry attempt
C29_Witness ==
    \E w \in WorkerSet :
        /\ w.pc = "sleep"
        /\ hist[w.task].failed = 2
        /\ w.delay = 4

\* The status changes of a task's life
LifecycleMoves ==
    {<<PENDING, RUNNING>>, <<RETRY, RUNNING>>, <<RUNNING, SUCCESS>>,
     <<RUNNING, RETRY>>, <<RUNNING, FAILED>>}

\* C30: a task is submitted in status pending; every status change is one of
\* pending->running, retry->running, running->success, running->retry,
\* running->failed; every failure of an attempt moves the task to retry
\* while it has retries left and to failed when it has none; success and
\* failed are never left, and no task is ever cancelled.  (An attempt that
\* finds no handler sets running and raises in the same uninterrupted
\* stretch, so its two changes show as one step.)
C30_Lifecycle ==
    /\ [](\A i \in TaskIds : tasks[i].status # CANCELLED)
    /\ [][/\ \A i \in 1..Len(tasks') :
                i \notin TaskIds => tasks'[i].status = PENDING
          /\ \A i \in TaskIds :
                LET a == tasks[i].status
                    b == tasks'[i].status
                    left == tasks[i].max_retries - tasks[i].retry_count
                IN  /\ a # b =>
                          \/ <<a, b>> \in LifecycleMoves
                          \/ /\ task_handlers[tasks[i].type] = None
                             /\ <<a, RUNNING>> \in LifecycleMoves
                             /\ <<RUNNING, b>> \in LifecycleMoves
                    /\ a \in {SUCCESS, FAILED} => b = a
                    /\ hist'[i].failed # hist[i].failed =>
                          /\ \/ a = RUNNING
                             \/ /\ task_handlers[tasks[i].type] = None
                                /\ a \in {PENDING, RETRY}
                          /\ b = IF left > 0 THEN RETRY ELSE FAILED
                    /\ (a = RUNNING /\ b \in {RETRY, FAILED}) =>
                          hist'[i].failed = hist[i].failed + 1]_vars

\* One task failed for good after using up its retries, another succeeded in
\* a retry
C30_Witness ==
    \E i, j \in TaskIds :
        /\ tasks[i].status = FAILED
        /\ tasks[i].max_retries >= 1
        /\ tasks[i].retry_count = tasks[i].max_retries
        /\ tasks[j].status = SUCCESS
        /\ tasks[j].retry_count >= 1

\* ---- C31
\* The tasks ahead of task i in queue q
Ahead(i, q) == {q[n] : n \in {m \in 1..Len(q) : \E k \in (m + 1)..Len(q) : q[k] = i}}
QueuedIn(q) == {q[n] : n \in 1..Len(q)}

\* C31: a retried task re-enters the queue at the back: the put that ends
\* its backoff leaves every task already queued ahead of it; a task ahead of
\* it stays ahead of it until that task is dequeued; and the retried task is
\* dequeued for its next attempt only when nothing is ahead of it.
C31_RetryAtBack ==
    [][\A i \in TaskIds :
          tasks[i].retry_count >= 1 =>
              /\ (i \notin QueuedIn(task_queue) /\ i \in QueuedIn(task_queue')) =>
                    /\ task_queue' = Append(task_queue, i)
                    /\ Ahead(i, task_queue') = QueuedIn(task_queue)
              /\ (i \in QueuedIn(task_queue) /\ i \in QueuedIn(task_queue')) =>
                    \A j \in Ahead(i, task_queue) :
                        j \in Ahead(i, task_queue') \/ j \notin QueuedIn(task_queue')
              /\ (i \in QueuedIn(task_queue) /\ i \notin QueuedIn(task_queue')) =>
                    /\ Ahead(i, task_queue) = {}
                    /\ hist'[i].invoked = hist[i].invoked + 1
      ]_vars

\* A task submitted while task 1 waited out its backoff is ahead of it in
\* the queue
C31_Witness ==
    /\ task_queue = <<2, 1>>
    /\ tasks[1].status = RETRY
    /\ hist[1].failed = 1
    /\ tasks[2].status = PENDING
    /\ hist[2].invoked = 0

\* ---- C32
\* The tasks in status running and the tasks waiting out a backoff delay
\* (to be retried, not yet back in the queue)
Busy ==
    {i \in TaskIds :
        \/ tasks[i].status = RUNNING
        \/ tasks[i].status = RETRY /\ i \notin QueuedIn(task_queue)}
\* The number of worker loops that hold a task
BusyLoops ==
    LET f[n \in 0..Len(tasks)] == IF n = 0 THEN 0 ELSE f[n - 1] + HolderCount(n)
    IN  f[Len(tasks)]

\* C32: a worker loop handles one task at a time, from the dequeue until the
\* attempt is resolved, the backoff delay included: the tasks running or
\* waiting out a backoff are as many as the loops that hold a task, a loop
\* holds a task exactly while it is in the handler or in the backoff sleep,
\* so these tasks are at most as many as the live loops; and a step that
\* takes a task off the queue leaves every loop in its backoff sleep as it
\* was.
C32_OneTaskPerWorker ==
    /\ [](/\ Cardinality(Busy) <= LiveCount
          /\ Cardinality(Busy) = BusyLoops
          /\ \A w \in WorkerSet :
                /\ (w.task # 0) = (w.pc \in {"handler", "sleep"})
                /\ w.pc = "handler" => tasks[w.task].status = RUNNING
                /\ w.pc = "sleep" => tasks[w.task].status = RETRY)
    /\ [][Len(task_queue') < Len(task_queue) =>
              \A w \in WorkerSet :
                  w.pc = "sleep" => CopiesIn(w, workers') >= CopiesIn(w, workers)
         ]_vars

\* Every live loop holds a task, one of them running and one waiting out its
\* backoff
C32_Witness ==
    /\ LiveCount = WorkerCount
    /\ Cardinality(Busy) = LiveCount
    /\ \E w \in WorkerSet : w.pc = "sleep"
    /\ \E w \in WorkerSet : w.pc = "handler"

\* ---- C33
\* The task the improvement phase has handed to the improver agent
TheImprovementTask == improvement_task(episode_num, TheIntegrated)

\* C33: the improvement phase hands the improver agent at most 2 priority-fix
\* areas, however many areas scored below the threshold.
C33_AtMostTwoAreas ==
    cycle_pc = "improver" => Len(TheImprovementTask.target_areas) <= 2

\* ---- C34
\* The dicts the driver before this one held when it last saved
TheSaved == CHOOSE x \in iis_env.saved : TRUE

\* C34: restart round trip.  A driver initialized after a driver before it
\* saved its history holds, for every target unit and under the key it looks
\* the unit up by, the saved best score and the saved score-delta history.
C34_RestartRoundTrip ==
    (iis.pc = "ready" /\ iis_env.saved # {}) =>
        \A u \in Units :
            /\ Get(iis.best_scores, IntKey(u), 0) = Get(TheSaved.best_scores, IntKey(u), 0)
            /\ Get(iis.improvement_history, IntKey(u), <<>>)
                  = Get(TheSaved.improvement_history, IntKey(u), <<>>)

\* ---- C35
\* C35: after stop() no further outer iteration begins: the iteration in
\* progress finishes and the loop is left; finalize_improvements runs exactly
\* once, and the history it saves is in the history file.
C35_StopThenFinalize ==
    /\ [][(~iis.running /\ iis.pc \in {"cycle", "sleep"}) =>
              /\ iis'.iteration_count = iis.iteration_count
              /\ iis'.pc \in {"cycle", "ended"}
              /\ iis.pc = "sleep" => iis'.pc = "ended"]_vars
    /\ [](iis_env.finalized <= 1)
    /\ []((iis.pc = "finalized" /\ ~iis.running) =>
              /\ iis_env.finalized = 1
              /\ iis_env.saved # {} => \E f \in iis_env.file : f.complete)

\* ---- C36
\* How often task i is in the queue
QueueCount(i) == Cardinality({n \in 1..Len(task_queue) : task_queue[n] = i})

\* C36: no task is lost or duplicated.  A registered task that is neither
\* success nor failed is in the queue exactly once or held by exactly one
\* worker loop (in its handler or in its backoff sleep), never both; a task
\* that is success or failed is in neither; every queued or held id is a
\* registered task.
C36_NoLossNoDuplicate ==
    /\ \A i \in TaskIds :
          IF tasks[i].status \in {SUCCESS, FAILED}
          THEN QueueCount(i) = 0 /\ HolderCount(i) = 0
          ELSE /\ QueueCount(i) + HolderCount(i) = 1
               /\ QueueCount(i) = 1 => tasks[i].status \in {PENDING, RETRY}
               /\ HolderCount(i) = 1 => tasks[i].status \in {RUNNING, RETRY}
    /\ \A n \in 1..Len(task_queue) : task_queue[n] \in TaskIds
    /\ \A w \in WorkerSet : w.task \in TaskIds \cup {0}

\* The engine was stopped and started again: its loops are all new, and a
\* task that failed an attempt before the stop waits in the queue for its
\* retry
C36_Witness ==
    /\ running
    /\ workers = (FreshLoop :> WorkerCount)
    /\ \E i \in TaskIds :
          /\ tasks[i].status = RETRY
          /\ tasks[i].retry_count >= 1
          /\ QueueCount(i) = 1

\* ---- C37
\* The number of registered tasks in status st, and the sum of retry_count
\* over the registered tasks
CountByStatus(st) == Cardinality({i \in TaskIds : tasks[i].status = st})
RetrySum ==
    LET f[n \in 0..Len(tasks)] == IF n = 0 THEN 0 ELSE f[n - 1] + tasks[n].retry_count
    IN  f[Len(tasks)]

\* C37: the counters agree with the registry: total_tasks is the number of
\* registered tasks, completed_tasks the number in status success,
\* failed_tasks the number in status failed, retry_tasks the sum of
\* retry_count over all tasks; and no counter ever decreases.
C37_CountersAgree ==
    /\ [](/\ stats.total_tasks = Len(tasks)
          /\ stats.completed_tasks = CountByStatus(SUCCESS)
          /\ stats.failed_tasks = CountByStatus(FAILED)
          /\ stats.retry_tasks = RetrySum)
    /\ [][/\ stats'.total_tasks >= stats.total_tasks
          /\ stats'.completed_tasks >= stats.completed_tasks
          /\ stats'.failed_tasks >= stats.failed_tasks
          /\ stats'.retry_tasks >= stats.retry_tasks]_vars

\* Two tasks submitted; one succeeded, the other failed for good after a
\* retry, and every counter but total_tasks stands at 1
C37_Witness ==
    /\ stats = [total_tasks |-> 2, completed_tasks |-> 1,
                failed_tasks |-> 1, retry_tasks |-> 1]
    /\ \E i \in TaskIds : tasks[i].status = FAILED /\ tasks[i].retry_count = 1

\* ---- C38
\* C38: pause then resume restores processing: whenever the running flag is
\* set, whether by start() or by the resume endpoint, a task in the queue
\* has a live worker loop to dequeue it.
C38_ResumeRestores ==
    (running /\ task_queue # <<>>) => LiveCount > 0

\* ---- C39
\* C39: the active_workers value get_stats() returns is the number of worker
\* loops that are live (created and not returned).
C39_ActiveWorkersLive == get_stats.active_workers = LiveCount

\* ---- C40
\* The message of the exception each phase raises in the model
PhaseMessage == [analysis |-> "analysis_error", persistence |-> "save_error"]

\* C40: the error path of a cycle.  A phase that has started and not ended
\* is the last phase to have started; when the call has returned it has a
\* result: without a unit id an error and no phase, after a phase that raised
\* status error with the unit id and that phase's message, otherwise
\* success; and a cycle record is written only after analysis, parallel
\* analysis, integration and improvement have all ended.
C40_ErrorPath ==
    /\ cycle_pc = "returned" => cycle_result # {}
    /\ \A i \in 1..(Len(phase_log) - 1) :
          phase_log[i].ev = "start" => phase_log[i + 1] = Ended(phase_log[i].phase)
    /\ \A r \in cycle_result :
          LET n == Len(phase_log)
          IN  IF episode_num = 0
              THEN /\ phase_log = <<>>
                   /\ DOMAIN r = {"error"}
                   /\ saved = <<>>
              ELSE IF phase_log[n].ev = "start"
              THEN /\ r.status = "error"
                   /\ r.episode_number = episode_num
                   /\ r.error = PhaseMessage[phase_log[n].phase]
                   /\ saved = <<>>
              ELSE /\ r.status = "success"
                   /\ r.episode_number = episode_num
                   /\ phase_log = PhaseOrder
                   /\ Len(saved) = 1
    /\ \A k \in 1..Len(saved) :
          /\ \A p \in 1..4 : \E i \in 1..Len(phase_log) : phase_log[i] = Ended(Phases[p])
          /\ saved[k].episode_number = episode_num
          /\ cycle_pc = "returned"

\* The persistence phase raised after the four phases before it had ended:
\* the call returned the error, and no record was written
C40_Witness ==
    /\ cycle_pc = "returned"
    /\ phase_log # <<>>
    /\ phase_log[Len(phase_log)] = Started("persistence")
    /\ \E r \in cycle_result : r.status = "error" /\ r.error = "save_error"
    /\ saved = <<>>

====
